---- MODULE Spec2Model ----
(***************************************************************************)
(* Model of memotic: the "#cli" directive extractor, the recognizer chain  *)
(* that classifies commands, the sandboxed executor run_cli_lines, the     *)
(* predicate matcher of MemoWebhookEvent, its timestamp coercion and       *)
(* activity resolution, and the result reporter of CliTagged.run_cli.      *)
(*                                                                         *)
(* A command string is a sequence of whitespace-separated tokens; a memo   *)
(* text is a sequence of lines.  The container (solitary.Sandbox) is the   *)
(* environment: every call into it returns or raises, chosen by \E.        *)
(***************************************************************************)
EXTENDS Integers, Sequences, FiniteSets, TLC

VARIABLES
    text,        \* memo content handed to run_cli_lines: a sequence of lines
    pc,          \* position of the run_cli_lines generator
    commands,    \* exec.py:55  the list returned by extract_cli_commands
    idx,         \* exec.py:68  position of the loop in commands (1-based)
    inflight,    \* indices whose sandbox.execute_shell call has not returned
    executed,    \* command strings handed to sandbox.execute_shell, in order
    results,     \* tuples yielded to the consumer, in order
    escaped,     \* TRUE once an exception has propagated to the consumer
    sandbox,     \* the sandbox context: "none", "open", "closed" or "failed"
    etype,       \* event type whose matches() is evaluated
    payload,     \* raw webhook payload handed to matches()
    memo_valid,  \* whether the Memo model accepts the payload's memo object
    matched,     \* result of matches(): "none" before the call, then "true",
                 \* "false", or "raised" if an exception left the call
    request,     \* a webhook delivery: headers, inline activity field, raw timestamps
    candidate,   \* the event instance built from request by model_validate
    activity,    \* what get_activity returned: "none" before the call
    rendered,    \* handler.py:70  rendered_chunks, one block per command result
    parent_name, \* handler.py:63  memo.name, "" when the memo has none
    config,      \* the MemoticConfig fields the reporter reads
    body_chunks, \* handler.py:126 the list returned by _summarize_results
    created_names, \* handler.py:130 one entry per recorded posting outcome
    posts,       \* chunk numbers handed to client.post, in order
    ridx,        \* handler.py:132 number of the chunk the loop is at (0 before the loop)
    rpc,         \* position of run_cli in its reporting part
    container,   \* the Docker container as it is: name, exists, running
    cpc,         \* position of ContainerManager.ensure_container
    issued,      \* docker commands issued by the call: "start", "rm", "run"
    last_health, \* result of the last _test_container_health of the call
    docker_at_call, \* what is_docker_available answered at container_manager.py:122
    ensured,     \* how ensure_container ended: "returned", "RuntimeError"
    content_regex_str, \* base.py:387 content_regex_str as each type's own body declares it
    compiled,    \* base.py:390 _compiled_regex in each type's own namespace
    used,        \* the regex matches() of each type got at base.py:528, last call
    evaluated,   \* the types whose matches() was called, in order
    dpc,         \* where each webhook dispatch is: "request", "loop", "report", "posting", "done"
    ncmds,       \* number of commands each dispatch carries
    dnext,       \* exec.py:68 number of the command each dispatch executes next
    current,     \* the dispatch the event loop is running, "none" between tasks
    shell_log,   \* the dispatch of every sandbox.execute_shell call, in order
    filename_pattern, \* handlers.py:26 filename_pattern of the default file handler
    initial_pattern, \* the pattern the handler was built with
    original_pattern, \* plugin.py:190 the local of each handle_urgent_memos invocation
    upc,         \* where each handle_urgent_memos invocation is: "start", "saving", "done"
    saved_with,  \* the pattern of every file name generated (handlers.py:73), in order
    index_file,  \* handlers.py:212 the memo ids in memo_index.json on disk
    torn,        \* TRUE while a write_text of the index file is under way
    index_data,  \* handlers.py:222 the local dict of each index_memo call
    ipc,         \* where each index_memo call is: "start", "submitted", "writing", "done"
    memos,       \* storage.py:20 MemoStorage.memos: a dict from memo id to memo
    counter,     \* storage.py:21 MemoStorage.counter
    last_create, \* the last create call: whether it chose the id itself, the key it stored under, whether the key was present before
    stream,      \* lines of the open connection that r.aiter_lines() has not yielded yet
    nevents,     \* number of events the server holds, with ids 1..nevents
    trig_match,  \* for each loaded trigger, what its match() answers
    received,    \* ids of the event blocks whose closing blank line was read
    dispatched,  \* pairs of event id and trigger whose run() was awaited
    last_id,     \* event_runner.py:82 last_id, 0 for None
    acked,       \* the values last_id has taken
    keepalive    \* whether the server sends a comment line before each event

vars == <<text, pc, commands, idx, inflight, executed, results, escaped,
          sandbox, etype, payload, memo_valid, matched, request, candidate,
          activity, rendered, parent_name, config, body_chunks, created_names,
          posts, ridx, rpc, container, cpc, issued, last_health,
          docker_at_call, ensured,
          content_regex_str, compiled, used, evaluated,
          dpc, ncmds, dnext, current, shell_log,
          filename_pattern, initial_pattern, original_pattern, upc, saved_with,
          index_file, torn, index_data, ipc,
          memos, counter, last_create,
          stream, nevents, trig_match, received, dispatched, last_id, acked, keepalive>>

execVars == <<text, pc, commands, idx, inflight, executed, results, escaped,
              sandbox>>
matchVars == <<etype, payload, memo_valid, matched>>
actVars == <<request, candidate, activity>>
repVars == <<rendered, parent_name, config, body_chunks, created_names, posts,
             ridx, rpc>>
cmVars == <<container, cpc, issued, last_health, docker_at_call, ensured>>
rxVars == <<content_regex_str, compiled, used, evaluated>>
dpVars == <<dpc, ncmds, dnext, current, shell_log>>
ugVars == <<filename_pattern, initial_pattern, original_pattern, upc, saved_with>>
ixVars == <<index_file, torn, index_data, ipc>>
stVars == <<memos, counter, last_create>>
sseVars == <<stream, nevents, trig_match, received, dispatched, last_id, acked, keepalive>>

\* the variables of the four components above, and of the ones below
coreVars == <<execVars, matchVars, actVars, repVars>>
moreVars == <<cmVars, rxVars, dpVars, ugVars, ixVars, stVars, sseVars>>

\* what the actions of one component leave alone
notExecVars == <<matchVars, actVars, repVars, moreVars>>
notMatchVars == <<execVars, actVars, repVars, moreVars>>
notActVars == <<execVars, matchVars, repVars, moreVars>>
notRepVars == <<execVars, matchVars, actVars, moreVars>>
notCmVars == <<coreVars, rxVars, dpVars, ugVars, ixVars, stVars, sseVars>>
notRxVars == <<coreVars, cmVars, dpVars, ugVars, ixVars, stVars, sseVars>>
notDpVars == <<coreVars, cmVars, rxVars, ugVars, ixVars, stVars, sseVars>>
notUgVars == <<coreVars, cmVars, rxVars, dpVars, ixVars, stVars, sseVars>>
notIxVars == <<coreVars, cmVars, rxVars, dpVars, ugVars, stVars, sseVars>>
notStVars == <<coreVars, cmVars, rxVars, dpVars, ugVars, ixVars, sseVars>>
notSseVars == <<coreVars, cmVars, rxVars, dpVars, ugVars, ixVars, stVars>>

(***************************************************************************)
(* Bounds                                                                  *)
(***************************************************************************)
MaxLines == 3
MaxTermLines == 3
MaxTags == 2
MaxHeaders == 2
MaxBlocks == 3
MaxBlockLen == 2
MaxChars == 4
MaxEvals == 3
MaxCmds == 3
MaxCounter == 3
MaxEvents == 2

(***************************************************************************)
(* Generic sequence helpers                                                *)
(***************************************************************************)
SeqsUpTo(S, n) == UNION {[1..k -> S] : k \in 0..n}

Range(s) == {s[k] : k \in 1..Len(s)}

(***************************************************************************)
(* Command strings                                                         *)
(***************************************************************************)
\* str.lower() on one token
Lower(tok) ==
    CASE tok = "SUDO" -> "sudo"
      [] tok = "Deploy" -> "deploy"
      [] OTHER -> tok

LowerCmd(cmd) == [k \in 1..Len(cmd) |-> Lower(cmd[k])]

\* tokens whose text ends with the given word (re.search is unanchored)
EndsWithRm == {"rm"}
EndsWithSudo == {"sudo"}
EndsWithSu == {"su"}
EndsWithChmod == {"chmod"}
EndsWithFormat == {"format"}
EndsWithDd == {"dd"}

\* r"rm\s+-rf\s*/"
PatRmRf(c) ==
    \E k \in 1..Len(c) :
        /\ c[k] \in EndsWithRm
        /\ k + 2 <= Len(c)
        /\ c[k + 1] = "-rf"
        /\ c[k + 2] = "/"

\* r"format\s+[a-z]:"
PatFormat(c) ==
    \E k \in 1..Len(c) :
        /\ c[k] \in EndsWithFormat
        /\ k + 1 <= Len(c)
        /\ c[k + 1] = "c:"

\* r":\(\)\{.*\|.*&"
PatForkBomb(c) == \E k \in 1..Len(c) : c[k] = ":(){:|:&};:"

\* r"dd\s+if=/dev/zero"
PatDd(c) ==
    \E k \in 1..Len(c) :
        /\ c[k] \in EndsWithDd
        /\ k + 1 <= Len(c)
        /\ c[k + 1] = "if=/dev/zero"

\* r"chmod\s+777"
PatChmod(c) ==
    \E k \in 1..Len(c) :
        /\ c[k] \in EndsWithChmod
        /\ k + 1 <= Len(c)
        /\ c[k + 1] = "777"

\* r"sudo\s+" : the word must be followed by whitespace, hence by a token
PatSudo(c) == \E k \in 1..Len(c) : c[k] \in EndsWithSudo /\ k + 1 <= Len(c)

\* r"su\s+"
PatSu(c) == \E k \in 1..Len(c) : c[k] \in EndsWithSu /\ k + 1 <= Len(c)

\* any(re.search(pattern, cmd_lower) for pattern in DANGEROUS_PATTERNS)
DANGEROUS_PATTERNS(cmd) ==
    LET c == LowerCmd(cmd) IN
        \/ PatRmRf(c)
        \/ PatFormat(c)
        \/ PatForkBomb(c)
        \/ PatDd(c)
        \/ PatChmod(c)
        \/ PatSudo(c)
        \/ PatSu(c)

\* CliCommand.parse_args: args = parts[1:]
Args(cmd) == IF Len(cmd) > 1 THEN SubSeq(cmd, 2, Len(cmd)) ELSE <<>>

\* key stored by _parse_flags for one argument ("" when it stores none)
FlagKey(arg) ==
    CASE arg = "--force" -> "force"
      [] arg = "-f" -> "f"
      [] arg = "-rf" -> "r"
      [] OTHER -> ""

\* second key stored for a bundle of short flags
FlagKey2(arg) ==
    CASE arg = "-rf" -> "f"
      [] OTHER -> ""

\* CliCommand._parse_flags: the key set of the flags dict
ParseFlags(args) ==
    ({FlagKey(args[k]) : k \in 1..Len(args)}
        \cup {FlagKey2(args[k]) : k \in 1..Len(args)}) \ {""}

\* CliCommand.matches for a class with command_prefix
MatchesPrefix(prefix, cmd) == Len(cmd) > 0 /\ cmd[1] = prefix

\* GenericCliCommand.is_safe
GenericIsSafe(cmd) == ~DANGEROUS_PATTERNS(cmd)

\* EchoCommand.is_safe
EchoIsSafe(cmd) == TRUE

\* GitCommand.is_safe
GitIsSafe(cmd) ==
    LET args == Args(cmd)
        subcommand == IF Len(args) > 0 THEN args[1] ELSE ""
        flags == ParseFlags(args)
    IN  /\ subcommand \notin {"rm", "clean", "reset --hard"}
        /\ ~("--force" \in flags \/ "-f" \in flags)

\* parse_cli_command: the first class of COMMAND_HANDLERS that matches
HandlerOf(cmd) ==
    IF MatchesPrefix("echo", cmd) THEN "EchoCommand"
    ELSE IF MatchesPrefix("git", cmd) THEN "GitCommand"
    ELSE "GenericCliCommand"

\* cmd.is_safe() of the command object built by parse_cli_command
IsSafe(cmd) ==
    CASE HandlerOf(cmd) = "EchoCommand" -> EchoIsSafe(cmd)
      [] HandlerOf(cmd) = "GitCommand" -> GitIsSafe(cmd)
      [] OTHER -> GenericIsSafe(cmd)

\* parse_cli_command: the fields of the CliCommand the executor reads
ParseCliCommand(raw) ==
    [raw_command |-> raw[1], allow_fail |-> raw[2], handler |-> HandlerOf(raw[1])]

RECURSIVE GetSafeCommands(_)
\* get_safe_commands: parse every (command, allow_fail), keep the safe ones
GetSafeCommands(raws) ==
    IF raws = <<>> THEN <<>>
    ELSE LET cmd == ParseCliCommand(Head(raws))
             rest == GetSafeCommands(Tail(raws))
         IN  IF IsSafe(cmd.raw_command) THEN <<cmd>> \o rest ELSE rest

(***************************************************************************)
(* Memo text and the "#cli" directive                                      *)
(***************************************************************************)
\* the text of one line as tokens: the marker (if any) followed by the body
LineText(line) ==
    (IF line.marker THEN <<IF line.bang THEN "#cli!" ELSE "#cli">> ELSE <<>>)
        \o line.body

\* first line after k that is not blank (0 when there is none)
NextNonBlank(lines, k) ==
    IF \E j \in (k + 1)..Len(lines) : LineText(lines[j]) # <<>>
    THEN CHOOSE j \in (k + 1)..Len(lines) :
            /\ LineText(lines[j]) # <<>>
            /\ \A h \in (k + 1)..(j - 1) : LineText(lines[h]) = <<>>
    ELSE 0

RECURSIVE ExtractFrom(_, _)
\* CLI_LINE.finditer from line k on: "[:\s]+" also consumes line breaks, so
\* a marker with an empty body takes the next non-blank line as its command
ExtractFrom(lines, k) ==
    IF k > Len(lines) THEN <<>>
    ELSE IF ~lines[k].marker THEN ExtractFrom(lines, k + 1)
    ELSE IF lines[k].body # <<>>
         THEN <<<<lines[k].body, lines[k].bang>>>> \o ExtractFrom(lines, k + 1)
    ELSE LET j == NextNonBlank(lines, k) IN
         IF j = 0 THEN <<>>
         ELSE <<<<LineText(lines[j]), lines[k].bang>>>> \o ExtractFrom(lines, j + 1)

\* extract_cli_oneliners
ExtractCliOneliners(lines) == ExtractFrom(lines, 1)

\* extract_cli_commands
ExtractCliCommands(lines) == GetSafeCommands(ExtractCliOneliners(lines))

(***************************************************************************)
(* Webhook payloads and event types                                        *)
(*                                                                         *)
(* A tag is a string, modelled as a sequence of characters; a content is a *)
(* sequence of words.  A JSON object is a record that says which of the    *)
(* keys it carries.                                                        *)
(***************************************************************************)
\* str.lower() on one character
LowerChar(ch) ==
    CASE ch = "A" -> "a"
      [] ch = "B" -> "b"
      [] ch = "C" -> "c"
      [] OTHER -> ch

\* str.lower()
LowerStr(str) == [k \in 1..Len(str) |-> LowerChar(str[k])]

RECURSIVE LStripHash(_)
\* str.lstrip("#")
LStripHash(str) ==
    IF str # <<>> /\ Head(str) = "#" THEN LStripHash(Tail(str)) ELSE str

RECURSIVE LStripSpace(_)
\* the leading half of str.strip()
LStripSpace(str) ==
    IF str # <<>> /\ Head(str) = " " THEN LStripSpace(Tail(str)) ELSE str

RECURSIVE RStripSpace(_)
\* the trailing half of str.strip()
RStripSpace(str) ==
    IF str # <<>> /\ str[Len(str)] = " "
    THEN RStripSpace(SubSeq(str, 1, Len(str) - 1))
    ELSE str

\* str.strip()
Strip(str) == RStripSpace(LStripSpace(str))

\* t.lstrip("#").strip().lower()
NormalizeTag(tag) == LowerStr(Strip(LStripHash(tag)))

\* {t.lstrip("#").strip().lower() for t in tags}
NormalizeTags(tags) == {NormalizeTag(tags[k]) : k \in 1..Len(tags)}

\* {t.lower() for t in cls.any_tags}
LowerSet(declared) == {LowerStr(t) : t \in declared}

\* str.lower() on a content
LowerContent(content) == [k \in 1..Len(content) |-> Lower(content[k])]

\* needle.lower() in content.lower()
ContentContains(needle, content) ==
    LET n == LowerContent(needle)
        c == LowerContent(content)
    IN  \E k \in 1..(Len(c) + 1 - Len(n)) : SubSeq(c, k, k + Len(n) - 1) = n

\* regex.search(content) for a pattern compiled with re.I | re.S: a literal,
\* optionally anchored at the start of the content by "^"
RegexSearch(regex, content) ==
    IF regex.anchored
    THEN /\ Len(regex.lit) <= Len(content)
         /\ SubSeq(LowerContent(content), 1, Len(regex.lit)) = LowerContent(regex.lit)
    ELSE ContentContains(regex.lit, content)

\* a key that the enclosing object does not carry
Absent == [kind |-> "absent", has_content |-> FALSE, content |-> <<>>,
           has_tags |-> FALSE, tags |-> <<>>]

\* the envelope keys, in the order both probes try them
EnvelopeKeys == <<"memo", "data", "after", "payload">>

\* the memo object made of the payload's own top-level fields
TopLevel(raw) ==
    [kind |-> "dict", has_content |-> raw.has_content, content |-> raw.content,
     has_tags |-> raw.has_tags, tags |-> raw.tags]

\* a JSON string where a memo object is expected, as in {"memo": "oops"}
Scalar == [Absent EXCEPT !.kind = "scalar"]

\* bool(obj) of a JSON value: a dict is true unless it is empty, a non-empty
\* string is true
Truthy(obj) ==
    \/ obj.kind = "scalar"
    \/ obj.kind = "dict" /\ (obj.has_content \/ obj.has_tags)

\* _gather_raw_paths(raw, "memo.content", ..., "payload.content", "content"):
\* the first path that exists
GatherContent(raw) ==
    LET has(k) == raw[EnvelopeKeys[k]].kind = "dict" /\ raw[EnvelopeKeys[k]].has_content
    IN  IF \E k \in 1..4 : has(k)
        THEN LET k == CHOOSE k \in 1..4 : has(k) /\ \A j \in 1..(k - 1) : ~has(j)
             IN  [found |-> TRUE, value |-> raw[EnvelopeKeys[k]].content]
        ELSE IF raw.has_content
        THEN [found |-> TRUE, value |-> raw.content]
        ELSE [found |-> FALSE, value |-> <<>>]

\* _gather_raw_paths(raw, "memo", "data", "after", "payload"): the value of
\* the first key that is present, whatever it is
GatherMemo(raw) ==
    LET has(k) == raw[EnvelopeKeys[k]].kind # "absent"
    IN  IF \E k \in 1..4 : has(k)
        THEN raw[EnvelopeKeys[CHOOSE k \in 1..4 : has(k) /\ \A j \in 1..(k - 1) : ~has(j)]]
        ELSE Absent

\* variant: the tag predicates are combined by "or"
TagsPassEither(tags, any_tags, all_tags) ==
    \/ any_tags # {} /\ tags \cap any_tags # {}
    \/ all_tags # {} /\ all_tags \subseteq tags
    \/ any_tags = {} /\ all_tags = {}

\* base.py:349-352 and base.py:557-564: the any_tags and all_tags checks
TagsPass(tags, any_tags, all_tags) ==
    /\ ~(any_tags # {} /\ tags \cap any_tags = {})
    /\ ~(all_tags # {} /\ ~(\A t \in all_tags : t \in tags))

\* _cheap_prefilter
CheapPrefilter(raw, any_tags, all_tags, content_contains, content_regex) ==
    IF any_tags = {} /\ all_tags = {} /\ content_contains = <<>> /\ ~content_regex.declared
    THEN TRUE
    ELSE LET content == GatherContent(raw)
             memo_obj == GatherMemo(raw)
             tags == IF memo_obj.kind = "dict" /\ memo_obj.has_tags
                     THEN NormalizeTags(memo_obj.tags)
                     ELSE {}
         IN  /\ ~(content_contains # <<>>
                    /\ (~content.found \/ ~ContentContains(content_contains, content.value)))
             /\ ~(content_regex.declared
                    /\ (~content.found \/ ~RegexSearch(content_regex, content.value)))
             /\ (any_tags # {} \/ all_tags # {}) => TagsPass(tags, any_tags, all_tags)

\* MemoWebhookEvent._coerce_envelopes: the object that becomes the memo
MemoLike(raw) ==
    LET ok(k) == Truthy(raw[EnvelopeKeys[k]])
    IN  IF \E k \in 1..4 : ok(k)
        THEN raw[EnvelopeKeys[CHOOSE k \in 1..4 : ok(k) /\ \A j \in 1..(k - 1) : ~ok(j)]]
        ELSE TopLevel(raw)

\* MemoWebhookEvent.tags_normalized of the validated candidate
TagsNormalized(raw) ==
    LET memo == MemoLike(raw)
    IN  IF memo.has_tags THEN NormalizeTags(memo.tags) ELSE {}

\* candidate.memo.content: a validated Memo holds a string, "" when the memo
\* object carries no content
MemoContent(raw) ==
    LET memo == MemoLike(raw)
    IN  IF memo.has_content THEN memo.content ELSE <<>>

\* does cls.model_validate(raw_data) build the candidate?  Only a JSON object
\* can become the memo; valid tells whether its remaining fields validate
Validates(raw, valid) == valid /\ MemoLike(raw).kind = "dict"

\* variant: the exception of a failed validation is not caught
TryModelValidateUncaught(raw, valid) ==
    IF Validates(raw, valid) THEN "ok" ELSE "raised"

\* base.py:543-548: model_validate in a try block whose handler returns False
TryModelValidate(raw, valid) ==
    IF Validates(raw, valid) THEN "ok" ELSE "false"

\* MemoWebhookEvent.matches, with its three ways out: "true", "false", or
\* "raised" when an exception leaves the call
MatchesResult(cls, raw, valid) ==
    LET any_tags == LowerSet(cls.any_tags)
        all_tags == LowerSet(cls.all_tags)
    IN  IF cls.is_base THEN "false"
        ELSE IF ~CheapPrefilter(raw, any_tags, all_tags, cls.content_contains,
                                cls.content_regex)
        THEN "false"
        ELSE IF TryModelValidate(raw, valid) # "ok" THEN TryModelValidate(raw, valid)
        ELSE IF /\ TagsPass(TagsNormalized(raw), any_tags, all_tags)
                /\ cls.content_contains # <<>> =>
                       ContentContains(cls.content_contains, MemoContent(raw))
                /\ cls.content_regex.declared =>
                       RegexSearch(cls.content_regex, MemoContent(raw))
        THEN "true"
        ELSE "false"

\* the part of matches after the pre-filter (base.py:543-579): model
\* validation and the declarative checks on the validated candidate
FullEvaluation(cls, raw, valid) ==
    LET any_tags == LowerSet(cls.any_tags)
        all_tags == LowerSet(cls.all_tags)
    IN  IF cls.is_base THEN "false"
        ELSE IF TryModelValidate(raw, valid) # "ok" THEN TryModelValidate(raw, valid)
        ELSE IF /\ TagsPass(TagsNormalized(raw), any_tags, all_tags)
                /\ cls.content_contains # <<>> =>
                       ContentContains(cls.content_contains, MemoContent(raw))
                /\ cls.content_regex.declared =>
                       RegexSearch(cls.content_regex, MemoContent(raw))
        THEN "true"
        ELSE "false"

\* MemoWebhookEvent.matches returned True
Matches(cls, raw, valid) == MatchesResult(cls, raw, valid) = "true"

(***************************************************************************)
(* Inputs of the matcher                                                   *)
(***************************************************************************)
\* an event type that declares no content pattern
NoRegex == [declared |-> FALSE, anchored |-> FALSE, lit |-> <<>>]

\* the content patterns declared by the event types explored: r"^deploy"
Regexes == {NoRegex, [declared |-> TRUE, anchored |-> TRUE, lit |-> <<"deploy">>]}

\* MemoWebhookEvent itself
BaseType == [is_base |-> TRUE, any_tags |-> {}, all_tags |-> {},
             content_contains |-> <<>>, content_regex |-> NoRegex]

\* subclasses of MemoWebhookEvent with their declarative matchers
EventTypes ==
    [is_base : {FALSE},
     any_tags : SUBSET {<<"a">>, <<"b">>},
     all_tags : SUBSET {<<"B">>, <<"c">>},
     content_contains : {<<>>, <<"now">>},
     content_regex : Regexes] \cup {BaseType}

\* tag strings as they arrive in payloads
RawTags == {<<"a">>, <<"#", "B">>, <<"c">>, <<" ", "#", "a">>}

\* memo objects: a dict with or without "content" and "tags"
MemoObjects ==
    [kind : {"dict"}, has_content : {TRUE}, content : {<<"Deploy", "now">>, <<"hello">>},
     has_tags : {TRUE}, tags : SeqsUpTo(RawTags, MaxTags)]
    \cup [kind : {"dict"}, has_content : {FALSE}, content : {<<>>},
          has_tags : {TRUE}, tags : SeqsUpTo(RawTags, MaxTags)]
    \cup [kind : {"dict"}, has_content : {TRUE}, content : {<<"Deploy", "now">>, <<"hello">>},
          has_tags : {FALSE}, tags : {<<>>}]
    \cup [kind : {"dict"}, has_content : {FALSE}, content : {<<>>},
          has_tags : {FALSE}, tags : {<<>>}]

\* the payload {} : no envelope key and no field
EmptyPayload ==
    [memo |-> Absent, data |-> Absent, after |-> Absent, payload |-> Absent,
     has_content |-> FALSE, content |-> <<>>, has_tags |-> FALSE, tags |-> <<>>]

\* the payload {key: m}
Wrap(key, m) == [EmptyPayload EXCEPT ![key] = m]

\* the payload that is the memo m itself
Bare(m) ==
    [EmptyPayload EXCEPT !.has_content = m.has_content, !.content = m.content,
                         !.has_tags = m.has_tags, !.tags = m.tags]

\* the memo object {"tags": ["a"]}, which carries no content
TagsOnly == [Absent EXCEPT !.kind = "dict", !.has_tags = TRUE, !.tags = <<<<"a">>>>]

\* well-formed payloads: one envelope key, the memo at top level, or an empty
\* "memo" object next to the memo under "data"
WellFormed ==
    {Wrap(EnvelopeKeys[k], m) : k \in 1..4, m \in MemoObjects}
        \cup {Bare(m) : m \in MemoObjects}
        \cup {[Wrap("data", m) EXCEPT !.memo = [Absent EXCEPT !.kind = "dict"]] : m \in MemoObjects}

\* malformed payloads: a string under an envelope key, alone or next to a
\* memo under "data"; a memo without content next to a memo under "data"
Malformed ==
    {Wrap(EnvelopeKeys[k], Scalar) : k \in 1..4}
        \cup {[Wrap("data", m) EXCEPT !.memo = Scalar] : m \in MemoObjects}
        \cup {[Wrap("data", m) EXCEPT !.memo = TagsOnly] : m \in MemoObjects}

Payloads == WellFormed \cup Malformed

\* does the payload carry no envelope key at all?
IsBare(raw) == \A k \in 1..4 : raw[EnvelopeKeys[k]].kind = "absent"

(***************************************************************************)
(* Inputs of the executor                                                  *)
(***************************************************************************)
\* command bodies that occur in the memo texts explored
Bodies ==
    { <<>>,
      <<"echo", "hi">>,
      <<"false">>,
      <<"sudo", "ls">>,
      <<"echo", "x;", "sudo", "ls">> }

\* lines of a memo: "#cli"/"#cli!" lines and ordinary lines
Lines ==
    [marker : {TRUE}, bang : BOOLEAN, body : Bodies]
        \cup [marker : {FALSE}, bang : {FALSE}, body : {<<>>, <<"false">>}]

Texts == SeqsUpTo(Lines, MaxLines)

\* what one sandbox.execute_shell call can do: return an exit code or raise
Outcomes == {"zero", "nonzero", "raise"}

\* exit code of a failing command
FailCode == 1

\* the tuple yielded after execute_shell returned (exec.py:87)
ResultOf(cmd, outcome) ==
    [cmd |-> cmd, exit_code |-> IF outcome = "zero" THEN 0 ELSE FailCode,
     stderr |-> "sandbox"]

\* the tuple yielded when execute_shell raised (exec.py:95)
ExceptionResult(cmd) == [cmd |-> cmd, exit_code |-> -1, stderr |-> "exception"]

\* the tuple yielded by the outer handler (exec.py:104)
SetupFailedResult(cmds) ==
    [cmd |-> cmds[1].raw_command, exit_code |-> -1, stderr |-> "setup failed"]

\* variant: a failure always breaks the loop, allow_fail is ignored
StopsAfterIgnoringBang(result, allow_fail) == result.exit_code # 0

\* exec.py:89 and exec.py:96: does the loop break after this result?
StopsAfter(result, allow_fail) == result.exit_code # 0 /\ ~allow_fail

(***************************************************************************)
(* run_cli_lines, one action per step of the generator                     *)
(***************************************************************************)
\* variant: the loop is entered without preparing the container
StartSkipsPreparing ==
    /\ pc = "idle"
    /\ commands' = ExtractCliCommands(text)
    /\ pc' = IF commands' = <<>> THEN "done" ELSE "running"
    /\ idx' = 1
    /\ sandbox' = "open"
    /\ UNCHANGED <<text, inflight, executed, results, escaped>>
    /\ UNCHANGED notExecVars

\* exec.py:55-62: first next() of the generator
Start ==
    /\ pc = "idle"
    /\ commands' = ExtractCliCommands(text)
    /\ pc' = IF commands' = <<>> THEN "done" ELSE "preparing"
    /\ UNCHANGED <<text, idx, inflight, executed, results, escaped, sandbox>>
    /\ UNCHANGED notExecVars

\* variant: without the outer handler a preparation failure propagates
PrepareUncaught ==
    /\ pc = "preparing"
    /\ \E ok \in BOOLEAN :
        IF ok
        THEN /\ pc' = "running"
             /\ sandbox' = "open"
             /\ idx' = 1
             /\ UNCHANGED escaped
        ELSE /\ pc' = "done"
             /\ sandbox' = "failed"
             /\ escaped' = TRUE
             /\ UNCHANGED idx
    /\ UNCHANGED <<text, commands, inflight, executed, results>>
    /\ UNCHANGED notExecVars

\* exec.py:67: container_manager.create_sandbox() and entering the context
Prepare ==
    /\ pc = "preparing"
    /\ \E ok \in BOOLEAN :
        IF ok
        THEN /\ pc' = "running"
             /\ sandbox' = "open"
             /\ idx' = 1
             /\ UNCHANGED results
        ELSE /\ pc' = "done"
             /\ sandbox' = "failed"
             /\ results' = Append(results, SetupFailedResult(commands))
             /\ UNCHANGED idx
    /\ UNCHANGED <<text, commands, inflight, executed, escaped>>
    /\ UNCHANGED notExecVars

\* variant: the loop walks the list from its end
ExecuteReversed ==
    /\ pc = "running"
    /\ sandbox = "open"
    /\ idx <= Len(commands)
    /\ inflight' = inflight \cup {idx}
    /\ executed' = Append(executed, commands[Len(commands) + 1 - idx].raw_command)
    /\ pc' = "executing"
    /\ UNCHANGED <<text, commands, idx, results, escaped, sandbox>>
    /\ UNCHANGED notExecVars

\* exec.py:68-76: the loop hands command idx to sandbox.execute_shell
Execute ==
    /\ pc = "running"
    /\ sandbox = "open"
    /\ idx <= Len(commands)
    /\ inflight' = inflight \cup {idx}
    /\ executed' = Append(executed, commands[idx].raw_command)
    /\ pc' = "executing"
    /\ UNCHANGED <<text, commands, idx, results, escaped, sandbox>>
    /\ UNCHANGED notExecVars

\* exec.py:77-98: execute_shell returns or raises; the result is yielded and
\* the loop breaks or moves on
Return ==
    /\ pc = "executing"
    /\ \E outcome \in Outcomes :
        LET cmd == commands[idx]
            result == IF outcome = "raise"
                      THEN ExceptionResult(cmd.raw_command)
                      ELSE ResultOf(cmd.raw_command, outcome)
        IN  /\ results' = Append(results, result)
            /\ inflight' = inflight \ {idx}
            /\ IF StopsAfter(result, cmd.allow_fail)
               THEN /\ pc' = "halted"
                    /\ UNCHANGED idx
               ELSE /\ idx' = idx + 1
                    /\ pc' = IF idx + 1 > Len(commands) THEN "completed" ELSE "running"
    /\ UNCHANGED <<text, commands, executed, escaped, sandbox>>
    /\ UNCHANGED notExecVars

\* exec.py:67 and 100-104: leaving the sandbox context after the loop; an
\* exception raised there is caught by the outer handler
Leave ==
    /\ pc \in {"halted", "completed"}
    /\ \E ok \in BOOLEAN :
        IF ok
        THEN UNCHANGED results
        ELSE results' = Append(results, SetupFailedResult(commands))
    /\ pc' = "done"
    /\ sandbox' = "closed"
    /\ UNCHANGED <<text, commands, idx, inflight, executed, escaped>>
    /\ UNCHANGED notExecVars

(***************************************************************************)
(* Timestamps and activity resolution                                      *)
(*                                                                         *)
(* An instant is a number of hours.  A datetime is naive (a wall clock     *)
(* reading without zone) or aware (here always with UTC offset 0).  The    *)
(* value of a header or of an inline activity field is the set of the      *)
(* keywords it contains as substrings; a headers dict is a function from   *)
(* the keys it carries, a key being a known name in some letter case.      *)
(***************************************************************************)
\* None where a datetime is expected
NoDatetime == [kind |-> "none", wall |-> 0]

\* a timestamp key that the memo object does not carry
NoTime == [form |-> "absent", n |-> 0]

\* a timestamp value that no format reads, as in "create_time": "soon"
JunkTime == [form |-> "junk", n |-> 0]

\* Memo._coerce_webhook_formats.parse_dt, tz being the UTC offset of the
\* host's zone: datetime.fromtimestamp gives the naive local time, and
\* fromisoformat of "...Z" (as "...+00:00") gives an aware datetime
ParseDt(value, tz) ==
    CASE value.form = "seconds" -> [kind |-> "naive", wall |-> value.n + tz]
      [] value.form = "epoch" -> [kind |-> "naive", wall |-> value.n + tz]
      [] value.form = "iso" -> [kind |-> "aware", wall |-> value.n]
      [] OTHER -> NoDatetime

\* base.py:159-164 for one field: the parsed value is stored only if parse_dt
\* returned one; otherwise the field keeps the value it arrived with
CoerceTime(value, tz) ==
    IF value.form = "absent" THEN NoDatetime
    ELSE IF ParseDt(value, tz).kind # "none" THEN ParseDt(value, tz)
    ELSE [kind |-> "raw", wall |-> 0]

\* the datetime fields of the Memo model accept None or a datetime
MemoAccepts(ct, ut) == ct.kind # "raw" /\ ut.kind # "raw"

\* _normalize_activity: the keyword families in the order they are tried;
\* "" stands for None
NormalizeActivity(s) ==
    IF s \cap {"create", "created", "new", "insert"} # {} THEN "create"
    ELSE IF s \cap {"update", "edit", "edited", "modify", "modified", "change", "changed"} # {}
    THEN "update"
    ELSE IF s \cap {"delete", "deleted", "remove", "removed"} # {} THEN "delete"
    ELSE IF s \cap {"push", "commit"} # {} THEN "push"
    ELSE IF s \cap {"pull_request", "merge_request"} # {} THEN "pull_request"
    ELSE ""

\* the header names get_activity looks up, in its order
KnownHeaders ==
    <<"x-memos-event", "x-event-type", "x-github-event", "x-webhook-event",
      "x-activity", "x-action">>

\* headers.get(key)
HeaderGet(headers, name, casing) ==
    IF <<name, casing>> \in DOMAIN headers
    THEN [found |-> TRUE, keywords |-> headers[<<name, casing>>]]
    ELSE [found |-> FALSE, keywords |-> {}]

\* base.py:484-488 for the k-th known header: headers.get(hk) or
\* headers.get(hk.title()), then _normalize_activity
HeaderActivity(headers, k) ==
    LET lo == HeaderGet(headers, KnownHeaders[k], "lower")
        ti == HeaderGet(headers, KnownHeaders[k], "title")
        hv == IF lo.found THEN lo ELSE ti
    IN  IF hv.found THEN NormalizeActivity(hv.keywords) ELSE ""

\* base.py:475-488: the first known header that gives an activity
FromHeaders(headers) ==
    LET hit(k) == HeaderActivity(headers, k) # ""
    IN  IF \E k \in 1..Len(KnownHeaders) : hit(k)
        THEN HeaderActivity(headers,
                 CHOOSE k \in 1..Len(KnownHeaders) : hit(k) /\ \A j \in 1..(k - 1) : ~hit(j))
        ELSE ""

\* base.py:494-503: ut == ct is False for a naive and an aware datetime,
\* ut > ct raises TypeError for them, which the except clause swallows
FromTimestamps(ct, ut) ==
    IF ct.kind = "none" \/ ut.kind = "none" THEN ""
    ELSE IF ut = ct THEN "create"
    ELSE IF ut.kind # ct.kind THEN ""
    ELSE IF ut.wall > ct.wall THEN "update"
    ELSE ""

\* variant: the inline hint is consulted before the headers
GetActivityHintFirst(cand, headers) ==
    IF cand.activity_hint # "" THEN cand.activity_hint
    ELSE IF FromHeaders(headers) # "" THEN FromHeaders(headers)
    ELSE IF FromTimestamps(cand.create_time, cand.update_time) # ""
    THEN FromTimestamps(cand.create_time, cand.update_time)
    ELSE "any"

\* MemoWebhookEvent.get_activity
GetActivityResult(cand, headers) ==
    IF FromHeaders(headers) # "" THEN FromHeaders(headers)
    ELSE IF cand.activity_hint # "" THEN cand.activity_hint
    ELSE IF FromTimestamps(cand.create_time, cand.update_time) # ""
    THEN FromTimestamps(cand.create_time, cand.update_time)
    ELSE "any"

\* the instance model_validate builds: _coerce_envelopes sets activity_hint
\* from the inline field, Memo._coerce_webhook_formats coerces the
\* timestamps, then the fields are validated
BuildCandidate(req) ==
    LET ct == CoerceTime(req.create_time, req.tz)
        ut == CoerceTime(req.update_time, req.tz)
    IN  [status |-> IF MemoAccepts(ct, ut) THEN "ok" ELSE "invalid",
         create_time |-> ct,
         update_time |-> ut,
         activity_hint |-> IF req.hint.present THEN NormalizeActivity(req.hint.keywords)
                           ELSE ""]

(***************************************************************************)
(* Inputs of the activity resolver                                         *)
(***************************************************************************)
\* the points in time that occur in the timestamps explored
Instants == {1, 2}

\* UTC offsets of the host's zone
TZOffsets == {0, 1}

\* timestamp values: absent, unreadable, or an instant in one of the three
\* upstream encodings
RawTimes ==
    {NoTime, JunkTime} \cup [form : {"seconds", "epoch", "iso"}, n : Instants]

\* header names and the letter cases they arrive in
HeaderKeys == {"x-memos-event", "x-action"} \X {"lower", "title", "upper"}

\* header values: "memo.created", "memo.update", "ping"
HeaderValues == {{"create", "created"}, {"update"}, {}}

\* headers dicts with at most MaxHeaders entries
HeaderDicts ==
    UNION {[K -> HeaderValues] : K \in {S \in SUBSET HeaderKeys : Cardinality(S) <= MaxHeaders}}

\* no inline activity field
NoHint == [present |-> FALSE, keywords |-> {}]

\* inline activity fields: none, "action": "deleted", "action": "ping"
Hints ==
    {NoHint, [present |-> TRUE, keywords |-> {"delete", "deleted"}],
     [present |-> TRUE, keywords |-> {}]}

Requests ==
    [headers : HeaderDicts, hint : Hints, create_time : RawTimes,
     update_time : RawTimes, tz : TZOffsets]

\* no delivery, no instance
NoRequest ==
    [headers |-> <<>>, hint |-> NoHint, create_time |-> NoTime,
     update_time |-> NoTime, tz |-> 0]

NoCandidate ==
    [status |-> "none", create_time |-> NoDatetime, update_time |-> NoDatetime,
     activity_hint |-> ""]

\* values of the resolver's variables while another component is explored
ActIdle ==
    /\ request = NoRequest
    /\ candidate = NoCandidate
    /\ activity = "none"

(***************************************************************************)
(* Result reporter                                                         *)
(*                                                                         *)
(* A rendered block and a comment body are strings, modelled as sequences  *)
(* of characters.                                                          *)
(***************************************************************************)
RECURSIVE RStripWs(_)
\* str.rstrip()
RStripWs(str) ==
    IF str # <<>> /\ str[Len(str)] \in {" ", "\n"}
    THEN RStripWs(SubSeq(str, 1, Len(str) - 1))
    ELSE str

\* variant: the separator is not counted
OverflowsUncounted(buf, piece, max_chars) ==
    Len(buf) + Len(piece) > max_chars /\ buf # <<>>

\* handler.py:32: len(buf) + len(piece) + 1 > max_chars and buf
Overflows(buf, piece, max_chars) ==
    Len(buf) + Len(piece) + 1 > max_chars /\ buf # <<>>

\* handler.py:35: buf += piece if not buf else "\n" + piece
AddPiece(buf, piece) == IF buf = <<>> THEN piece ELSE buf \o <<"\n">> \o piece

\* variant: the buffer left after the loop is not returned
FinishDropsBuffer(combined, buf) == combined

\* handler.py:37-40: the buffer left after the loop becomes the last chunk
Finish(combined, buf) ==
    IF buf # <<>> THEN Append(combined, RStripWs(buf)) ELSE combined

RECURSIVE PackFrom(_, _, _, _, _)
\* handler.py:31-40: the loop over chunks from position k on
PackFrom(chunks, k, combined, buf, max_chars) ==
    IF k > Len(chunks) THEN Finish(combined, buf)
    ELSE LET flush == Overflows(buf, chunks[k], max_chars)
         IN  PackFrom(chunks, k + 1,
                      IF flush THEN Append(combined, RStripWs(buf)) ELSE combined,
                      AddPiece(IF flush THEN <<>> ELSE buf, chunks[k]),
                      max_chars)

\* _summarize_results
SummarizeResults(chunks, max_chars) ==
    IF chunks = <<>> THEN <<>> ELSE PackFrom(chunks, 1, <<>>, <<>>, max_chars)

\* rendered blocks: handler.py:79-81 strips trailing whitespace of a text that
\* starts with "$ ", so a block is not empty and does not end in whitespace
Blocks ==
    {b \in SeqsUpTo({"a", "\n"}, MaxBlockLen) : b # <<>> /\ b[Len(b)] = "a"}

\* config.max_comment_chars, config.has_api_config() (host and port are set)
\* and whether config.memos_token holds a token
Configs == [max_comment_chars : 1..MaxChars, has_api : BOOLEAN, has_token : BOOLEAN]

\* memo.name: none, or the resource name of the memo
ParentNames == {"", "memos/1"}

\* what one call into memos_api or httpx can do
CallOutcomes == {"ok", "raise"}

\* what client.post can do: answer 200, answer another status, raise
PostOutcomes == {"200", "500", "raise"}

\* handler.py:155-169: the entry appended to created_names for chunk i
Recorded(i, outcome) ==
    [chunk |-> i, marker |-> IF outcome = "200" THEN "created" ELSE "failed"]

\* values of the reporter's variables while another component is explored
RepIdle ==
    /\ rendered = <<>>
    /\ parent_name = ""
    /\ config = [max_comment_chars |-> 1, has_api |-> FALSE, has_token |-> FALSE]
    /\ body_chunks = <<>>
    /\ created_names = <<>>
    /\ posts = <<>>
    /\ ridx = 0
    /\ rpc = "idle"

\* values of the matcher's variables while the executor is explored
NoType == BaseType

NoPayload == EmptyPayload

\* values of the executor's variables while another component is explored
ExecIdle ==
    /\ text = <<>>
    /\ pc = "idle"
    /\ commands = <<>>
    /\ idx = 0
    /\ inflight = {}
    /\ executed = <<>>
    /\ results = <<>>
    /\ escaped = FALSE
    /\ sandbox = "none"

\* values of the matcher's variables while another component is explored
MatchIdle ==
    /\ etype = NoType
    /\ payload = NoPayload
    /\ memo_valid = FALSE
    /\ matched = "none"

\* values of the container manager's variables while another component is
\* explored
CmIdle ==
    /\ container = [name |-> "default", exists |-> FALSE, running |-> FALSE]
    /\ cpc = "idle"
    /\ issued = <<>>
    /\ last_health = "none"
    /\ docker_at_call = "none"
    /\ ensured = "none"

\* values of the regex cache's variables while another component is explored
RxIdle ==
    /\ content_regex_str = [t \in {"Parent", "Child", "Sibling"} |-> "unset"]
    /\ compiled = [t \in {"Parent", "Child", "Sibling"} |-> <<"unset">>]
    /\ used = [t \in {"Parent", "Child", "Sibling"} |-> <<"unused">>]
    /\ evaluated = <<>>

\* values of the concurrent dispatches' variables while another component is
\* explored
DpIdle ==
    /\ dpc = [d \in {"d1", "d2"} |-> "done"]
    /\ ncmds = [d \in {"d1", "d2"} |-> 1]
    /\ dnext = [d \in {"d1", "d2"} |-> 1]
    /\ current = "none"
    /\ shell_log = <<>>

\* values of the urgent handler's variables while another component is explored
UgIdle ==
    /\ filename_pattern = "{timestamp}_{memo_name}.md"
    /\ initial_pattern = "{timestamp}_{memo_name}.md"
    /\ original_pattern = [u \in {"u1", "u2", "u3"} |-> "unset"]
    /\ upc = [u \in {"u1", "u2", "u3"} |-> "done"]
    /\ saved_with = <<>>

\* values of the search indexer's variables while another component is explored
IxIdle ==
    /\ index_file = {}
    /\ torn = FALSE
    /\ index_data = [m \in {"m1", "m2", "m3"} |-> {}]
    /\ ipc = [m \in {"m1", "m2", "m3"} |-> "done"]

\* values of the memo storage's variables while another component is explored
StIdle ==
    /\ memos = [k \in {} |-> [name |-> <<>>, content |-> ""]]
    /\ counter = 0
    /\ last_create = [auto |-> FALSE, key |-> "", existed |-> FALSE]

\* values of the SSE runner's variables while another component is explored
SseIdle ==
    /\ stream = <<>>
    /\ nevents = 0
    /\ trig_match = [t \in {"t1", "t2"} |-> FALSE]
    /\ received = {}
    /\ dispatched = {}
    /\ last_id = 0
    /\ acked = {}
    /\ keepalive = FALSE

\* the four components above at rest
CoreIdle == ExecIdle /\ MatchIdle /\ ActIdle /\ RepIdle

\* the components below at rest
MoreIdle == CmIdle /\ RxIdle /\ DpIdle /\ UgIdle /\ IxIdle /\ StIdle /\ SseIdle

Init ==
    /\ text \in Texts
    /\ pc = "idle"
    /\ commands = <<>>
    /\ idx = 0
    /\ inflight = {}
    /\ executed = <<>>
    /\ results = <<>>
    /\ escaped = FALSE
    /\ sandbox = "none"
    /\ etype = NoType
    /\ payload = NoPayload
    /\ memo_valid = FALSE
    /\ matched = "none"
    /\ ActIdle
    /\ RepIdle
    /\ MoreIdle

Next ==
    \/ Start
    \/ Prepare
    \/ Execute
    \/ Return
    \/ Leave

Spec == Init /\ [][Next]_vars

\* lines and texts of the runs whose termination is checked
TermLines == [marker : {TRUE}, bang : BOOLEAN, body : {<<"echo", "hi">>, <<"sudo", "ls">>}]

TermTexts == SeqsUpTo(TermLines, MaxTermLines)

TermInit ==
    /\ text \in TermTexts
    /\ pc = "idle"
    /\ commands = <<>>
    /\ idx = 0
    /\ inflight = {}
    /\ executed = <<>>
    /\ results = <<>>
    /\ escaped = FALSE
    /\ sandbox = "none"
    /\ etype = NoType
    /\ payload = NoPayload
    /\ memo_valid = FALSE
    /\ matched = "none"
    /\ ActIdle
    /\ RepIdle
    /\ MoreIdle

\* the consumer iterates the generator to exhaustion and every container call
\* returns or raises
TermSpec == TermInit /\ [][Next]_vars /\ WF_vars(Next)

(***************************************************************************)
(* Evaluating matches() for one event type and one payload                 *)
(***************************************************************************)
\* base.py:520-579: cls.matches(raw_data, headers)
Match ==
    /\ matched = "none"
    /\ matched' = MatchesResult(etype, payload, memo_valid)
    /\ UNCHANGED <<etype, payload, memo_valid>>
    /\ UNCHANGED notMatchVars

MatchInit ==
    /\ text = <<>>
    /\ pc = "idle"
    /\ commands = <<>>
    /\ idx = 0
    /\ inflight = {}
    /\ executed = <<>>
    /\ results = <<>>
    /\ escaped = FALSE
    /\ sandbox = "none"
    /\ etype \in EventTypes
    /\ payload \in Payloads
    /\ memo_valid \in BOOLEAN
    /\ matched = "none"
    /\ ActIdle
    /\ RepIdle
    /\ MoreIdle

MatchNext == Match

MatchSpec == MatchInit /\ [][MatchNext]_vars

(***************************************************************************)
(* Building an event instance and resolving its activity                   *)
(***************************************************************************)
\* cls.model_validate(raw_data) for the delivery
Validate ==
    /\ candidate.status = "none"
    /\ candidate' = BuildCandidate(request)
    /\ UNCHANGED <<request, activity>>
    /\ UNCHANGED notActVars

\* base.py:469-506: event.get_activity(headers)
GetActivity ==
    /\ candidate.status = "ok"
    /\ activity = "none"
    /\ activity' = GetActivityResult(candidate, request.headers)
    /\ UNCHANGED <<request, candidate>>
    /\ UNCHANGED notActVars

ActivityInit ==
    /\ text = <<>>
    /\ pc = "idle"
    /\ commands = <<>>
    /\ idx = 0
    /\ inflight = {}
    /\ executed = <<>>
    /\ results = <<>>
    /\ escaped = FALSE
    /\ sandbox = "none"
    /\ etype = NoType
    /\ payload = NoPayload
    /\ memo_valid = FALSE
    /\ matched = "none"
    /\ request \in Requests
    /\ candidate = NoCandidate
    /\ activity = "none"
    /\ RepIdle
    /\ MoreIdle

ActivityNext == Validate \/ GetActivity

ActivitySpec == ActivityInit /\ [][ActivityNext]_vars

(***************************************************************************)
(* Posting the results back: the second half of CliTagged.run_cli          *)
(***************************************************************************)
\* handler.py:104-130: the three early returns, then MemosAPI() and
\* _summarize_results inside the outer try, whose handler only logs
Report ==
    /\ rpc = "rendered"
    /\ IF rendered = <<>> \/ parent_name = "" \/ ~config.has_api
       THEN /\ rpc' = "returned"
            /\ UNCHANGED <<body_chunks, ridx>>
       ELSE \E outcome \in CallOutcomes :
                IF outcome = "raise"
                THEN /\ rpc' = "returned"
                     /\ UNCHANGED <<body_chunks, ridx>>
                ELSE /\ body_chunks' = SummarizeResults(rendered, config.max_comment_chars)
                     /\ ridx' = 1
                     /\ rpc' = "loop"
    /\ UNCHANGED <<rendered, parent_name, config, created_names, posts>>
    /\ UNCHANGED notRepVars

\* handler.py:137: "async with httpx.AsyncClient() as client" for chunk ridx;
\* it stands outside the inner try, so an exception ends the loop in the
\* outer handler
OpenClient ==
    /\ rpc = "loop"
    /\ \E outcome \in CallOutcomes :
            rpc' = IF outcome = "ok" THEN "posting" ELSE "returned"
    /\ UNCHANGED <<rendered, parent_name, config, body_chunks, created_names, posts, ridx>>
    /\ UNCHANGED notRepVars

\* handler.py:138-169: client.post inside the inner try; every way out
\* appends one entry to created_names
Post ==
    /\ rpc = "posting"
    /\ posts' = Append(posts, ridx)
    /\ \E outcome \in PostOutcomes :
            created_names' = Append(created_names, Recorded(ridx, outcome))
    /\ rpc' = "closing"
    /\ UNCHANGED <<rendered, parent_name, config, body_chunks, ridx>>
    /\ UNCHANGED notRepVars

\* leaving the "async with" block of chunk ridx, then the next iteration or
\* the end of the loop (handler.py:132-171)
CloseClient ==
    /\ rpc = "closing"
    /\ \E outcome \in CallOutcomes :
            IF outcome = "raise"
            THEN /\ rpc' = "returned"
                 /\ UNCHANGED ridx
            ELSE /\ ridx' = ridx + 1
                 /\ rpc' = IF ridx + 1 > Len(body_chunks) THEN "returned" ELSE "loop"
    /\ UNCHANGED <<rendered, parent_name, config, body_chunks, created_names, posts>>
    /\ UNCHANGED notRepVars

ReportInit ==
    /\ text = <<>>
    /\ pc = "idle"
    /\ commands = <<>>
    /\ idx = 0
    /\ inflight = {}
    /\ executed = <<>>
    /\ results = <<>>
    /\ escaped = FALSE
    /\ sandbox = "none"
    /\ etype = NoType
    /\ payload = NoPayload
    /\ memo_valid = FALSE
    /\ matched = "none"
    /\ ActIdle
    /\ MoreIdle
    /\ rendered \in SeqsUpTo(Blocks, MaxBlocks)
    /\ parent_name \in ParentNames
    /\ config \in Configs
    /\ body_chunks = <<>>
    /\ created_names = <<>>
    /\ posts = <<>>
    /\ ridx = 0
    /\ rpc = "rendered"

ReportNext == Report \/ OpenClient \/ Post \/ CloseClient

ReportSpec == ReportInit /\ [][ReportNext]_vars

(***************************************************************************)
(* ContainerManager.ensure_container                                       *)
(*                                                                         *)
(* Docker is the environment: the daemon may stop answering at any call, a *)
(* command may succeed or fail, a health check of a running container may  *)
(* pass or not.                                                            *)
(***************************************************************************)
\* the statuses get_container_status can report for the container as it is:
\* an error when the daemon does not answer (container_manager.py:89-91),
\* else exists and running as they are, healthy only if a health check ran
\* (97-98) and passed
Statuses(cont) ==
    {[error |-> TRUE, exists |-> FALSE, running |-> FALSE, healthy |-> FALSE]}
        \cup {[error |-> FALSE, exists |-> cont.exists, running |-> cont.running,
               healthy |-> h] : h \in (IF cont.running THEN BOOLEAN ELSE {FALSE})}

\* last_health after a get_container_status that reported st: a health
\* check is performed only for a running container
HealthAfter(st, before) ==
    IF st.error \/ ~st.running THEN before
    ELSE IF st.healthy THEN "passed" ELSE "failed"

\* container_manager.py:120-123: the call starts with is_docker_available
EnsureContainer ==
    /\ cpc = "call"
    /\ \E available \in BOOLEAN :
            /\ docker_at_call' = IF available THEN "yes" ELSE "no"
            /\ IF available
               THEN /\ cpc' = "status"
                    /\ UNCHANGED ensured
               ELSE /\ cpc' = "done"
                    /\ ensured' = "RuntimeError"
    /\ UNCHANGED <<container, issued, last_health>>
    /\ UNCHANGED notCmVars

\* container_manager.py:128-135: the first status decides: error raises, a
\* healthy container is returned, a stopped one is started, another one is
\* recreated
CheckStatus ==
    /\ cpc = "status"
    /\ \E st \in Statuses(container) :
            /\ last_health' = HealthAfter(st, last_health)
            /\ IF st.error
               THEN /\ cpc' = "done"
                    /\ ensured' = "RuntimeError"
               ELSE IF st.healthy
               THEN /\ cpc' = "done"
                    /\ ensured' = "returned"
               ELSE /\ cpc' = IF st.exists /\ ~st.running THEN "start" ELSE "recheck"
                    /\ UNCHANGED ensured
    /\ UNCHANGED <<container, issued, docker_at_call>>
    /\ UNCHANGED notCmVars

\* container_manager.py:138-155: docker start, then a health check; a failed
\* start or a failed check leads to remove_container
StartExisting ==
    /\ cpc = "start"
    /\ issued' = Append(issued, "start")
    /\ \E outcome \in {"healthy", "unhealthy", "failed"} :
            CASE outcome = "healthy" ->
                    /\ container' = [container EXCEPT !.running = TRUE]
                    /\ last_health' = "passed"
                    /\ cpc' = "done"
                    /\ ensured' = "returned"
              [] outcome = "unhealthy" ->
                    /\ container' \in {container, [container EXCEPT !.running = TRUE]}
                    /\ last_health' = "failed"
                    /\ cpc' = "remove"
                    /\ UNCHANGED ensured
              [] OTHER ->
                    /\ cpc' = "remove_handler"
                    /\ UNCHANGED <<container, last_health, ensured>>
    /\ UNCHANGED docker_at_call
    /\ UNCHANGED notCmVars

\* where ensure_container goes on after a remove_container that returned
AfterRemove(at) == IF at = "create" THEN "run" ELSE "recheck"

\* where it goes on when remove_container raised: inside the try block the
\* handler at container_manager.py:153-155 removes again, elsewhere the
\* RuntimeError leaves the call
AfterRemoveRaised(at) == IF at = "remove" THEN "remove_handler" ELSE "done"

\* remove_container (container_manager.py:205-219), called at 152, 155 and
\* 173: no command for a container that does not exist; docker rm -f may
\* succeed, fail (False is returned) or time out (RuntimeError)
RemoveContainer ==
    /\ cpc \in {"remove", "remove_handler", "create"}
    /\ IF ~container.exists
       THEN /\ cpc' = AfterRemove(cpc)
            /\ UNCHANGED <<container, issued, ensured>>
       ELSE /\ issued' = Append(issued, "rm")
            /\ \E outcome \in {"removed", "failed", "timeout"} :
                 CASE outcome = "removed" ->
                        /\ container' = [container EXCEPT !.exists = FALSE, !.running = FALSE]
                        /\ cpc' = AfterRemove(cpc)
                        /\ UNCHANGED ensured
                   [] outcome = "failed" ->
                        /\ cpc' = AfterRemove(cpc)
                        /\ UNCHANGED <<container, ensured>>
                   [] OTHER ->
                        /\ cpc' = AfterRemoveRaised(cpc)
                        /\ ensured' = IF AfterRemoveRaised(cpc) = "done"
                                      THEN "RuntimeError" ELSE ensured
                        /\ UNCHANGED container
    /\ UNCHANGED <<last_health, docker_at_call>>
    /\ UNCHANGED notCmVars

\* container_manager.py:158-160: a new container is created unless a second
\* status reports the container healthy
Recheck ==
    /\ cpc = "recheck"
    /\ \E st \in Statuses(container) :
            /\ last_health' = HealthAfter(st, last_health)
            /\ cpc' = IF st.healthy THEN "final" ELSE "create"
    /\ UNCHANGED <<container, issued, docker_at_call, ensured>>
    /\ UNCHANGED notCmVars

\* container_manager.py:175-203: docker run; a failure raises RuntimeError
RunContainer ==
    /\ cpc = "run"
    /\ issued' = Append(issued, "run")
    /\ \E outcome \in {"created", "failed"} :
            IF outcome = "created"
            THEN /\ container' = [container EXCEPT !.exists = TRUE, !.running = TRUE]
                 /\ cpc' = "final"
                 /\ UNCHANGED ensured
            ELSE /\ cpc' = "done"
                 /\ ensured' = "RuntimeError"
                 /\ UNCHANGED container
    /\ UNCHANGED <<last_health, docker_at_call>>
    /\ UNCHANGED notCmVars

\* variant: the name is returned whatever the final status says
FinalStatusIgnored ==
    /\ cpc = "final"
    /\ \E st \in Statuses(container) :
            /\ last_health' = HealthAfter(st, last_health)
            /\ ensured' = "returned"
    /\ cpc' = "done"
    /\ UNCHANGED <<container, issued, docker_at_call>>
    /\ UNCHANGED notCmVars

\* container_manager.py:163-168: the final status: unhealthy raises
FinalStatus ==
    /\ cpc = "final"
    /\ \E st \in Statuses(container) :
            /\ last_health' = HealthAfter(st, last_health)
            /\ ensured' = IF st.healthy THEN "returned" ELSE "RuntimeError"
    /\ cpc' = "done"
    /\ UNCHANGED <<container, issued, docker_at_call>>
    /\ UNCHANGED notCmVars

\* the container the call is for (container_manager.py:125: the name given,
\* or config.default_container_name) as it is before the call: absent,
\* stopped, or running
Containers ==
    {[name |-> n, exists |-> e, running |-> r] :
        n \in {"default", "test-container"}, e \in BOOLEAN, r \in BOOLEAN}
    \ {[name |-> n, exists |-> FALSE, running |-> TRUE] : n \in {"default", "test-container"}}

ContainerInit ==
    /\ CoreIdle
    /\ RxIdle
    /\ DpIdle
    /\ UgIdle
    /\ IxIdle
    /\ StIdle
    /\ SseIdle
    /\ container \in Containers
    /\ cpc = "call"
    /\ issued = <<>>
    /\ last_health = "none"
    /\ docker_at_call = "none"
    /\ ensured = "none"

ContainerNext ==
    \/ EnsureContainer
    \/ CheckStatus
    \/ StartExisting
    \/ RemoveContainer
    \/ Recheck
    \/ RunContainer
    \/ FinalStatus

ContainerSpec == ContainerInit /\ [][ContainerNext]_vars

(***************************************************************************)
(* The compiled content regex of an event type                             *)
(*                                                                         *)
(* Event types are classes: Parent and Sibling derive from                 *)
(* MemoWebhookEvent, Child derives from Parent.  A class attribute that a  *)
(* type's own namespace does not hold is read from the nearest ancestor    *)
(* that holds it; an assignment through cls writes the type's own          *)
(* namespace.  A compiled regex is the pair of its pattern and its flags.  *)
(***************************************************************************)
RegexTypes == {"Parent", "Child", "Sibling"}

SuperOf(t) == IF t = "Child" THEN "Parent" ELSE "MemoWebhookEvent"

\* patterns a type may declare; "(" is one re.compile rejects
Patterns == {"^deploy", "rollback", "("}

ValidPattern(p) == p # "("

NoneRegex == <<>>

\* base.py:513-517: re.compile with re.I | re.S; None on re.error
Compile(p) == IF ValidPattern(p) THEN <<p, "IS">> ELSE NoneRegex

\* cls.content_regex_str: the type's own declaration, else the nearest
\* ancestor's, else the None of MemoWebhookEvent (base.py:387)
RECURSIVE ContentRegexStr(_, _)
ContentRegexStr(decl, t) ==
    IF t = "MemoWebhookEvent" THEN "None"
    ELSE IF decl[t] # "unset" THEN decl[t]
    ELSE ContentRegexStr(decl, SuperOf(t))

\* cls._compiled_regex: the type's own attribute, else the nearest
\* ancestor's, else the None of MemoWebhookEvent (base.py:390)
RECURSIVE CompiledRegex(_, _)
CompiledRegex(comp, t) ==
    IF t = "MemoWebhookEvent" THEN NoneRegex
    ELSE IF comp[t] # <<"unset">> THEN comp[t]
    ELSE CompiledRegex(comp, SuperOf(t))

\* base.py:508-518 _get_compiled_regex, called by matches() at base.py:528:
\* nothing without a pattern; a compilation, stored on the type itself, only
\* when the attribute read through the ancestors is None
GetCompiledRegex(t) ==
    /\ Len(evaluated) < MaxEvals
    /\ evaluated' = Append(evaluated, t)
    /\ IF ContentRegexStr(content_regex_str, t) = "None"
       THEN /\ used' = [used EXCEPT ![t] = NoneRegex]
            /\ UNCHANGED compiled
       ELSE IF CompiledRegex(compiled, t) = NoneRegex
       THEN /\ compiled' = [compiled EXCEPT ![t] = Compile(ContentRegexStr(content_regex_str, t))]
            /\ used' = [used EXCEPT ![t] = Compile(ContentRegexStr(content_regex_str, t))]
       ELSE /\ used' = [used EXCEPT ![t] = CompiledRegex(compiled, t)]
            /\ UNCHANGED compiled
    /\ UNCHANGED content_regex_str
    /\ UNCHANGED notRxVars

RegexInit ==
    /\ CoreIdle
    /\ CmIdle
    /\ DpIdle
    /\ UgIdle
    /\ IxIdle
    /\ StIdle
    /\ SseIdle
    /\ content_regex_str \in [RegexTypes -> Patterns \cup {"unset"}]
    /\ compiled = [t \in RegexTypes |-> <<"unset">>]
    /\ used = [t \in RegexTypes |-> <<"unused">>]
    /\ evaluated = <<>>

RegexNext == \E t \in RegexTypes : GetCompiledRegex(t)

RegexSpec == RegexInit /\ [][RegexNext]_vars

(***************************************************************************)
(* Two webhook dispatches in one process                                   *)
(*                                                                         *)
(* The endpoint and the handler are coroutines on one event loop: a task   *)
(* runs until it reaches an await, and only then may another task run.     *)
(* run_cli_lines is a plain generator and sandbox.execute_shell a plain    *)
(* call, so the command loop holds no await.                               *)
(***************************************************************************)
Dispatches == {"d1", "d2"}

\* app.py:80 and 91: the task is resumed after "await request.json()" and
\* runs through bus.process_webhook into run_cli (handler.py:59-71), up to
\* the command loop inside the sandbox context (exec.py:55-67)
ResumeRequest(d) ==
    /\ current = "none"
    /\ dpc[d] = "request"
    /\ current' = d
    /\ dpc' = [dpc EXCEPT ![d] = "loop"]
    /\ UNCHANGED <<ncmds, dnext, shell_log>>
    /\ UNCHANGED notDpVars

\* variant: the command is awaited, so the event loop may run another task
\* between two commands
ExecuteShellAwaited(d) ==
    /\ current \in {d, "none"}
    /\ dpc[d] = "loop"
    /\ shell_log' = Append(shell_log, d)
    /\ \E stops \in BOOLEAN :
        /\ dnext' = [dnext EXCEPT ![d] = dnext[d] + 1]
        /\ dpc' = [dpc EXCEPT ![d] = IF stops \/ dnext[d] = ncmds[d]
                                     THEN "report" ELSE "loop"]
    /\ current' = "none"
    /\ UNCHANGED ncmds
    /\ UNCHANGED notDpVars

\* exec.py:68-98 and handler.py:73-91: one turn of the command loop, a plain
\* call of sandbox.execute_shell; the loop ends at a hard failure or after
\* the last command
ExecuteShell(d) ==
    /\ current = d
    /\ dpc[d] = "loop"
    /\ shell_log' = Append(shell_log, d)
    /\ \E stops \in BOOLEAN :
        /\ dnext' = [dnext EXCEPT ![d] = dnext[d] + 1]
        /\ dpc' = [dpc EXCEPT ![d] = IF stops \/ dnext[d] = ncmds[d]
                                     THEN "report" ELSE "loop"]
    /\ UNCHANGED <<ncmds, current>>
    /\ UNCHANGED notDpVars

\* handler.py:104-146: from the end of the loop to the first await of the
\* reporting part, or to the return when nothing is posted
AwaitPost(d) ==
    /\ current \in {d, "none"}
    /\ dpc[d] = "report"
    /\ \E posting \in BOOLEAN :
        dpc' = [dpc EXCEPT ![d] = IF posting THEN "posting" ELSE "done"]
    /\ current' = "none"
    /\ UNCHANGED <<ncmds, dnext, shell_log>>
    /\ UNCHANGED notDpVars

\* handler.py:146-177: the awaited post completes; the task posts the next
\* chunk or returns
ResumePost(d) ==
    /\ current = "none"
    /\ dpc[d] = "posting"
    /\ \E more \in BOOLEAN :
        dpc' = [dpc EXCEPT ![d] = IF more THEN "posting" ELSE "done"]
    /\ UNCHANGED <<ncmds, dnext, current, shell_log>>
    /\ UNCHANGED notDpVars

DispatchInit ==
    /\ CoreIdle
    /\ CmIdle
    /\ RxIdle
    /\ UgIdle
    /\ IxIdle
    /\ StIdle
    /\ SseIdle
    /\ dpc = [d \in Dispatches |-> "request"]
    /\ ncmds \in [Dispatches -> 1..MaxCmds]
    /\ dnext = [d \in Dispatches |-> 1]
    /\ current = "none"
    /\ shell_log = <<>>

DispatchNext ==
    \E d \in Dispatches :
        \/ ResumeRequest(d)
        \/ ExecuteShell(d)
        \/ AwaitPost(d)
        \/ ResumePost(d)

DispatchSpec == DispatchInit /\ [][DispatchNext]_vars

(***************************************************************************)
(* handle_urgent_memos on the shared default file handler                  *)
(*                                                                         *)
(* Invocations are coroutines on one event loop; each runs until its       *)
(* await.  save_memo computes the file name before it awaits the write.    *)
(***************************************************************************)
UrgentInvocations == {"u1", "u2", "u3"}

\* plugin.py:191
UrgentPattern == "URGENT_{timestamp}_{memo_name}.md"

\* patterns a default handler is built with (handlers.py:21)
HandlerPatterns == {"{timestamp}_{memo_name}.md", "{memo_name}.md"}

\* plugin.py:187-194 and handlers.py:122-137: the pattern is remembered and
\* replaced, save_memo generates the file name and awaits the write; when
\* save_memo raises before its await (mkdir), the finally clause at
\* plugin.py:196-197 restores at once
BeginUrgent(u) ==
    /\ upc[u] = "start"
    /\ original_pattern' = [original_pattern EXCEPT ![u] = filename_pattern]
    /\ \E mkdir_ok \in BOOLEAN :
        IF mkdir_ok
        THEN /\ filename_pattern' = UrgentPattern
             /\ saved_with' = Append(saved_with, UrgentPattern)
             /\ upc' = [upc EXCEPT ![u] = "saving"]
        ELSE /\ filename_pattern' = filename_pattern
             /\ upc' = [upc EXCEPT ![u] = "done"]
             /\ UNCHANGED saved_with
    /\ UNCHANGED initial_pattern
    /\ UNCHANGED notUgVars

\* plugin.py:194-197: the awaited write returns or raises; the finally
\* clause assigns the remembered pattern
EndUrgent(u) ==
    /\ upc[u] = "saving"
    /\ filename_pattern' = original_pattern[u]
    /\ upc' = [upc EXCEPT ![u] = "done"]
    /\ UNCHANGED <<initial_pattern, original_pattern, saved_with>>
    /\ UNCHANGED notUgVars

UrgentInit ==
    /\ CoreIdle
    /\ CmIdle
    /\ RxIdle
    /\ DpIdle
    /\ IxIdle
    /\ StIdle
    /\ SseIdle
    /\ initial_pattern \in HandlerPatterns
    /\ filename_pattern = initial_pattern
    /\ original_pattern = [u \in UrgentInvocations |-> "unset"]
    /\ upc \in [UrgentInvocations -> {"start", "done"}]
    /\ saved_with = <<>>

UrgentNext ==
    \E u \in UrgentInvocations :
        \/ BeginUrgent(u)
        \/ EndUrgent(u)

UrgentSpec == UrgentInit /\ [][UrgentNext]_vars

(***************************************************************************)
(* MemoSearchIndexer.index_memo                                            *)
(*                                                                         *)
(* Each call is for one memo, named by its id.  The index is read and the  *)
(* entry added before the await; the file is written by a thread of the    *)
(* default executor while the coroutine is suspended.                      *)
(***************************************************************************)
IndexCalls == {"m1", "m2", "m3"}

\* handlers.py:222-227: the index as json.loads gives it; a file that is
\* being rewritten does not parse and the handler starts from {}
LoadIndex == IF torn THEN {} ELSE index_file

\* handlers.py:218-245: load the index, add the entry, hand write_index to
\* the executor and await it
SubmitIndex(m) ==
    /\ ipc[m] = "start"
    /\ index_data' = [index_data EXCEPT ![m] = LoadIndex \cup {m}]
    /\ ipc' = [ipc EXCEPT ![m] = "submitted"]
    /\ UNCHANGED <<index_file, torn>>
    /\ UNCHANGED notIxVars

\* handlers.py:241-242: write_text opens the file, which truncates it
BeginWriteIndex(m) ==
    /\ ipc[m] = "submitted"
    /\ torn' = TRUE
    /\ ipc' = [ipc EXCEPT ![m] = "writing"]
    /\ UNCHANGED <<index_file, index_data>>
    /\ UNCHANGED notIxVars

\* handlers.py:241-245: the dump of this call's dict is on disk and the
\* awaiting call returns
EndWriteIndex(m) ==
    /\ ipc[m] = "writing"
    /\ index_file' = index_data[m]
    /\ torn' = \E o \in IndexCalls \ {m} : ipc[o] = "writing"
    /\ ipc' = [ipc EXCEPT ![m] = "done"]
    /\ UNCHANGED index_data
    /\ UNCHANGED notIxVars

IndexInit ==
    /\ CoreIdle
    /\ CmIdle
    /\ RxIdle
    /\ DpIdle
    /\ UgIdle
    /\ StIdle
    /\ SseIdle
    /\ index_file \in SUBSET {"m0"}
    /\ torn = FALSE
    /\ index_data = [m \in IndexCalls |-> {}]
    /\ ipc \in [IndexCalls -> {"start", "done"}]

IndexNext ==
    \E m \in IndexCalls :
        \/ SubmitIndex(m)
        \/ BeginWriteIndex(m)
        \/ EndWriteIndex(m)

IndexSpec == IndexInit /\ [][IndexNext]_vars

(***************************************************************************)
(* MemoStorage                                                             *)
(*                                                                         *)
(* A memo is a record of its name and content; a name is the pair of the   *)
(* prefix "memos/" and an id.                                              *)
(***************************************************************************)
\* str(n) of a small positive integer
Str(n) == <<"1", "2", "3", "4", "5", "6", "7", "8", "9">>[n]

\* ids a client may pass as memoId (routers/memos.py:51)
ClientIds == {"1", "2", "custom-id"}

MemoContents == {"first", "second"}

\* f"memos/{memo_id}"
MemoName(memo_id) == <<"memos/", memo_id>>

\* the dict d with d[key] = value
DictSet(d, key, value) ==
    [k \in DOMAIN d \cup {key} |-> IF k = key THEN value ELSE d[k]]

\* the dict d after del d[key]
DictDel(d, key) == [k \in DOMAIN d \ {key} |-> d[k]]

\* storage.py:23-31 create with an explicit memo_id
CreateWithId ==
    \E content \in MemoContents, memo_id \in ClientIds :
        /\ memos' = DictSet(memos, memo_id, [name |-> MemoName(memo_id), content |-> content])
        /\ last_create' = [auto |-> FALSE, key |-> memo_id, existed |-> memo_id \in DOMAIN memos]
        /\ UNCHANGED counter
        /\ UNCHANGED notStVars

\* storage.py:23-31 create without memo_id: the id is the next counter value
CreateAuto ==
    /\ counter < MaxCounter
    /\ \E content \in MemoContents :
        LET memo_id == Str(counter + 1)
        IN  /\ counter' = counter + 1
            /\ memos' = DictSet(memos, memo_id, [name |-> MemoName(memo_id), content |-> content])
            /\ last_create' = [auto |-> TRUE, key |-> memo_id, existed |-> memo_id \in DOMAIN memos]
    /\ UNCHANGED notStVars

\* storage.py:47-54 update: None for an unknown id
UpdateMemo ==
    \E content \in MemoContents, memo_id \in ClientIds \cup DOMAIN memos :
        /\ memos' = IF memo_id \in DOMAIN memos
                    THEN DictSet(memos, memo_id, [name |-> MemoName(memo_id), content |-> content])
                    ELSE memos
        /\ UNCHANGED <<counter, last_create>>
        /\ UNCHANGED notStVars

\* storage.py:56-61 delete
DeleteMemo ==
    \E memo_id \in ClientIds \cup DOMAIN memos :
        /\ memos' = IF memo_id \in DOMAIN memos THEN DictDel(memos, memo_id) ELSE memos
        /\ UNCHANGED <<counter, last_create>>
        /\ UNCHANGED notStVars

\* storage.py:19-21
StorageInit ==
    /\ CoreIdle
    /\ CmIdle
    /\ RxIdle
    /\ DpIdle
    /\ UgIdle
    /\ IxIdle
    /\ SseIdle
    /\ memos = [k \in {} |-> [name |-> <<>>, content |-> ""]]
    /\ counter = 0
    /\ last_create = [auto |-> FALSE, key |-> "", existed |-> FALSE]

StorageNext ==
    \/ CreateWithId
    \/ CreateAuto
    \/ UpdateMemo
    \/ DeleteMemo

StorageSpec == StorageInit /\ [][StorageNext]_vars

(***************************************************************************)
(* The SSE runner (event_runner.py)                                        *)
(*                                                                         *)
(* A line of the stream is a record of its field name and its value; the   *)
(* blank line has the field "".  The field "of" tells which event the      *)
(* server sent the line for; the runner does not read it.                  *)
(***************************************************************************)
Triggers == {"t1", "t2"}

BlankLine(b) == [field |-> "", value |-> 0, of |-> b]

\* the lines the server sends for event b: id, event, data, blank, after a
\* comment line when it sends keep-alive comments
BlockLines(b, comments) ==
    (IF comments THEN <<[field |-> ":", value |-> 0, of |-> b]>> ELSE <<>>)
        \o <<[field |-> "id", value |-> b, of |-> b],
             [field |-> "event", value |-> 0, of |-> b],
             [field |-> "data", value |-> b, of |-> b],
             BlankLine(b)>>

\* what the server sends on a connection opened with Last-Event-ID after
\* (0: no header): the events after that id, up to event n
RECURSIVE ServerLines(_, _, _)
ServerLines(after, n, comments) ==
    IF after >= n THEN <<>>
    ELSE BlockLines(after + 1, comments) \o ServerLines(after + 1, n, comments)

\* event_runner.py:54 and 60
EmptyBlock == [id |-> 0, data |-> <<>>]

\* event_runner.py:55-68: the loop of parse_sse_blocks from line k on, with
\* the block built so far and the events yielded so far
RECURSIVE ParseFrom(_, _, _, _)
ParseFrom(lines, k, block, out) ==
    IF k > Len(lines) THEN out
    ELSE LET line == lines[k]
         IN  IF line.field = ""
             THEN ParseFrom(lines, k + 1, EmptyBlock,
                            IF block.data # <<>>
                            THEN Append(out, [id |-> block.id, data |-> block.data])
                            ELSE out)
             ELSE IF line.field = "id"
             THEN ParseFrom(lines, k + 1, [block EXCEPT !.id = line.value], out)
             ELSE IF line.field = "data"
             THEN ParseFrom(lines, k + 1,
                            [block EXCEPT !.data = Append(block.data, line.value)], out)
             ELSE ParseFrom(lines, k + 1, block, out)

\* parse_sse_blocks(lines): the events it yields
ParseSseBlocks(lines) == ParseFrom(lines, 1, EmptyBlock, <<>>)

\* event_runner.py:97: what the runner hands to parse_sse_blocks for one line
LinesParsed(raw_line) ==
    IF raw_line.field = "" THEN <<raw_line, BlankLine(raw_line.of)>> ELSE <<raw_line>>

\* event_runner.py:99-100, over the events of one call in order
RECURSIVE LastIdAfter(_, _, _)
LastIdAfter(evts, k, id) ==
    IF k > Len(evts) THEN id
    ELSE LastIdAfter(evts, k + 1, IF evts[k].id # 0 THEN evts[k].id ELSE id)

\* event_runner.py:90-135: one line of the stream is read and the events
\* parsed from it are dispatched to the triggers whose match() is true
ReadLine ==
    /\ stream # <<>>
    /\ LET raw_line == Head(stream)
           evts == ParseSseBlocks(LinesParsed(raw_line))
       IN  /\ stream' = Tail(stream)
           /\ received' = IF raw_line.field = ""
                          THEN received \cup {raw_line.of} ELSE received
           /\ last_id' = LastIdAfter(evts, 1, last_id)
           /\ acked' = acked \cup {evts[k].id : k \in 1..Len(evts)}
           /\ dispatched' = dispatched \cup
                  {<<evts[k].data[1], t>> : k \in 1..Len(evts),
                                            t \in {u \in Triggers : trig_match[u]}}
    /\ UNCHANGED <<nevents, trig_match, keepalive>>
    /\ UNCHANGED notSseVars

\* event_runner.py:83-89 and 136-138: the connection ended or failed; the
\* loop opens it again, with Last-Event-ID when last_id is set
Reconnect ==
    /\ stream' = ServerLines(last_id, nevents, keepalive)
    /\ UNCHANGED <<nevents, trig_match, received, dispatched, last_id, acked,
                   keepalive>>
    /\ UNCHANGED notSseVars

\* event_runner.py:76-89: the triggers are loaded and the first connection
\* is opened without Last-Event-ID
SseInit ==
    /\ CoreIdle
    /\ CmIdle
    /\ RxIdle
    /\ DpIdle
    /\ UgIdle
    /\ IxIdle
    /\ StIdle
    /\ nevents \in 1..MaxEvents
    /\ keepalive \in BOOLEAN
    /\ stream = ServerLines(0, nevents, keepalive)
    /\ trig_match \in [Triggers -> BOOLEAN]
    /\ received = {}
    /\ dispatched = {}
    /\ last_id = 0
    /\ acked = {}

SseNext ==
    \/ ReadLine
    \/ Reconnect

\* the runner reads on as long as the connection yields lines
SseSpec == SseInit /\ [][SseNext]_vars /\ WF_vars(ReadLine)

(***************************************************************************)
(* Properties of the executor                                              *)
(***************************************************************************)
\* the tuples yielded for executed commands (exec.py:87 and exec.py:95)
CommandResults == SelectSeq(results, LAMBDA r : r.stderr # "setup failed")

\* results[k] reports a failure of a command that is not marked allow-failure
IsHardFailure(k) ==
    /\ k <= Len(commands)
    /\ results[k].exit_code # 0
    /\ ~commands[k].allow_fail

\* C1 (as stated): once a result with a nonzero exit code has been yielded for
\* a command that is not marked allow-failure, no later command is executed
\* and no further result is yielded; the results are exactly the prefix of
\* the command list up to and including that command.
C1_StopOnFirstHardFailure ==
    \A k \in 1..Len(results) :
        IsHardFailure(k) =>
            /\ Len(results) = k
            /\ Len(executed) <= k
            /\ \A j \in 1..k : results[j].cmd = commands[j].raw_command

\* every failure among the executed commands was of an allow-failure command
OnlyAllowedFailures ==
    \A k \in 1..Len(CommandResults) :
        CommandResults[k].exit_code # 0 => commands[k].allow_fail

\* some executed command failed
SomeFailure ==
    \E k \in 1..Len(CommandResults) : CommandResults[k].exit_code # 0

\* C2 (as stated): a failing allow-failure command does not halt the run, so
\* a run in a ready container whose only failing commands are allow-failure
\* yields one result per command.
C2_OneResultPerCommand ==
    (pc = "done" /\ sandbox = "closed" /\ SomeFailure /\ OnlyAllowedFailures) =>
        /\ Len(results) = Len(commands)
        /\ \A k \in 1..Len(commands) : results[k].cmd = commands[k].raw_command

\* C3 (as stated): no command that matches a pattern of the deny-list is in
\* the list handed to the executor or is executed in the sandbox, whichever
\* recognizer handles it.
C3_NoDangerousCommandExecuted ==
    /\ \A k \in 1..Len(commands) : ~DANGEROUS_PATTERNS(commands[k].raw_command)
    /\ \A k \in 1..Len(executed) : ~DANGEROUS_PATTERNS(executed[k])

\* C4: when the container cannot be prepared the run is over with exactly one
\* synthetic result (exit code -1, "setup failed"), no command was handed to
\* the sandbox, and nothing was raised to the consumer.
C4_PreparationFailure ==
    sandbox = "failed" =>
        /\ pc = "done"
        /\ Len(results) = 1
        /\ results[1].exit_code = -1
        /\ results[1].stderr = "setup failed"
        /\ executed = <<>>
        /\ inflight = {}
        /\ ~escaped

C4_Witness ==
    /\ sandbox = "failed"
    /\ pc = "done"
    /\ Len(commands) >= 2

\* the k-th executed command has returned and its tuple reports an exception
RaisedAt(k) ==
    /\ k <= Len(CommandResults)
    /\ CommandResults[k].stderr = "exception"

\* C5: a command whose execution raises gets exactly one result, with exit
\* code -1 and the exception text; the run then halts unless the command is
\* marked allow-failure, in which case the next command is the one to run.
C5_ExecutionException ==
    \A k \in 1..Len(executed) :
        RaisedAt(k) =>
            /\ CommandResults[k].exit_code = -1
            /\ CommandResults[k].cmd = executed[k]
            /\ Len(CommandResults) + Cardinality(inflight) = Len(executed)
            /\ ~commands[k].allow_fail =>
                    /\ Len(executed) = k
                    /\ pc \in {"halted", "done"}
            /\ commands[k].allow_fail =>
                    \/ Len(executed) > k
                    \/ pc = "running" /\ idx = k + 1
                    \/ k = Len(commands) /\ pc \in {"completed", "done"}

C5_Witness ==
    /\ Len(commands) = 3
    /\ Len(executed) = 2
    /\ RaisedAt(1)
    /\ RaisedAt(2)
    /\ commands[1].allow_fail
    /\ ~commands[2].allow_fail
    /\ pc = "done"

\* the command strings of a list of CliCommand objects
RawCommands(cmds) == [k \in 1..Len(cmds) |-> cmds[k].raw_command]

\* C6: commands are executed in extraction order, each position of the list
\* at most once; at most one command is in flight, the next one starts only
\* after the result of the previous one was yielded; command results are
\* yielded in execution order.
C6_StrictSequentialExecution ==
    /\ Cardinality(inflight) <= 1
    /\ Len(executed) <= Len(commands)
    /\ executed = SubSeq(RawCommands(commands), 1, Len(executed))
    /\ Len(CommandResults) + Cardinality(inflight) = Len(executed)
    /\ \A k \in 1..Len(CommandResults) : CommandResults[k].cmd = executed[k]
    /\ pc # "idle" => commands = ExtractCliCommands(text)

C6_Witness ==
    /\ Len(executed) = 3
    /\ Len(CommandResults) = 3
    /\ executed[1] # executed[2]
    /\ executed[2] # executed[3]

\* the state of the executor's state machine the generator is in
Phase(p) ==
    CASE p = "idle" -> "Idle"
      [] p = "preparing" -> "Preparing"
      [] p \in {"running", "executing"} -> "Running"
      [] p = "halted" -> "Halted"
      [] p = "completed" -> "Completed"
      [] OTHER -> "Done"

\* the transitions of Idle -> Preparing -> Running -> (Halted | Completed)
\* -> Done, and Preparing -> Done
StatedTransitions ==
    { <<"Idle", "Preparing">>, <<"Preparing", "Running">>,
      <<"Running", "Halted">>, <<"Running", "Completed">>,
      <<"Halted", "Done">>, <<"Completed", "Done">>,
      <<"Preparing", "Done">> }

\* no command is handed to the sandbox once the run is Halted or Done
NoExecutionAfterEnd ==
    [][Phase(pc) \in {"Halted", "Done"} => executed' = executed]_vars

\* C7 (as stated): every run reaches Done, changing state only along the
\* stated transitions, and executes nothing once Halted or Done.
C7_TerminationAsStated ==
    /\ <>(pc = "done")
    /\ [][Phase(pc') # Phase(pc) => <<Phase(pc), Phase(pc')>> \in StatedTransitions]_vars
    /\ NoExecutionAfterEnd

\* C7 (amended): a run over a non-empty command list reaches Done along the
\* stated transitions; a run whose command list is empty goes from Idle
\* straight to Done; nothing is executed once Halted or Done.
C7_Termination ==
    /\ <>(pc = "done")
    /\ [][Phase(pc') # Phase(pc) =>
            IF commands' = <<>>
            THEN <<Phase(pc), Phase(pc')>> = <<"Idle", "Done">>
            ELSE <<Phase(pc), Phase(pc')>> \in StatedTransitions]_vars
    /\ NoExecutionAfterEnd

C7_Witness ==
    /\ pc = "done"
    /\ sandbox = "closed"
    /\ Len(executed) = 3

\* a line that carries the marker followed by a command on the same line
HasOwnCommand(line) == line.marker /\ line.body # <<>>

\* the (command, allow_fail) pairs of the lines that carry their own command
OwnLineCommands(lines) ==
    LET own == SelectSeq(lines, HasOwnCommand)
    IN  [k \in 1..Len(own) |-> <<own[k].body, own[k].bang>>]

\* C17 (as stated): every extracted command is the remainder of the line that
\* carries its marker; a marker line with an empty body yields no command
\* whatever the next line contains; lines without the marker yield nothing.
C17_DirectiveIsSingleLine ==
    pc # "idle" => ExtractCliOneliners(text) = OwnLineCommands(text)

\* results[k] is the synthetic tuple of the outer handler (exec.py:104)
IsSynthetic(k) == results[k].stderr = "setup failed"

\* C25: a synthetic "Container setup failed" result is yielded only in a run
\* that executed no command, and there are never more results than executed
\* commands unless the only result is that synthetic one
C25_SyntheticOnlyWithoutExecutedCommands ==
    /\ (\E k \in 1..Len(results) : IsSynthetic(k)) => executed = <<>>
    /\ \/ Len(results) <= Len(executed)
       \/ Len(results) = 1 /\ IsSynthetic(1)

C10_EnvelopeShapeIndependence ==
    (matched # "none" /\ IsBare(payload)) =>
        (matched = "true") = Matches(etype, Wrap("memo", TopLevel(payload)), memo_valid)

\* C11: matches never raises: whatever the event type and the payload, the
\* call returns true or false, and a payload whose validation fails gives
\* false.
C11_MatchesNeverRaises ==
    matched # "none" =>
        /\ matched \in {"true", "false"}
        /\ ~Validates(payload, memo_valid) => matched = "false"

C11_Witness ==
    /\ matched = "false"
    /\ payload \in Malformed
    /\ ~Validates(payload, memo_valid)
    /\ CheapPrefilter(payload, LowerSet(etype.any_tags), LowerSet(etype.all_tags),
                      etype.content_contains, etype.content_regex)
    /\ etype.content_contains # <<>>

\* C12 (as stated): every element of the tag set used for matching is
\* lower-case and has no leading "#", whatever the case, the "#" prefix and
\* the surrounding whitespace of the tag strings of the payload.
C12_TagNormalization ==
    (matched # "none" /\ MemoLike(payload).kind = "dict") =>
        \A t \in TagsNormalized(payload) :
            /\ t = LowerStr(t)
            /\ t # <<>> => Head(t) # "#"

\* C24: the result of matches (pre-filter, then validation and checks) is
\* the result of validation and checks alone: the pre-filter rejects only
\* what the full evaluation rejects
C24_PrefilterSoundness ==
    matched # "none" => matched = FullEvaluation(etype, payload, memo_valid)

(***************************************************************************)
(* Properties of the activity resolver                                     *)
(***************************************************************************)
\* the timestamp arrived in one of the three upstream encodings
Encoded(value) == value.form \in {"seconds", "epoch", "iso"}

\* what get_activity infers from two instants given in one encoding
SameEncodingActivity(req) ==
    LET ct == ParseDt(req.create_time, req.tz)
        ut == ParseDt([form |-> req.create_time.form, n |-> req.update_time.n], req.tz)
    IN  IF FromTimestamps(ct, ut) # "" THEN FromTimestamps(ct, ut) ELSE "any"

\* C13 (as stated): the same instant normalizes to equal values in the three
\* encodings, and comparing a create_time given in one encoding with an
\* update_time given in another gives what identical encodings give.
C13_TimestampFormatEquivalence ==
    (candidate.status = "ok" /\ Encoded(request.create_time) /\ Encoded(request.update_time)) =>
        /\ request.create_time.n = request.update_time.n =>
                candidate.create_time = candidate.update_time
        /\ (activity # "none" /\ FromHeaders(request.headers) = ""
                /\ candidate.activity_hint = "") =>
                activity = SameEncodingActivity(request)

\* C14 (as stated): a timestamp field holding an unparsable value is absent
\* after normalization, and the payload still validates.
C14_MalformedTimestampAbsent ==
    candidate.status # "none" =>
        /\ request.create_time = JunkTime => candidate.create_time = NoDatetime
        /\ request.update_time = JunkTime => candidate.update_time = NoDatetime
        /\ (request.create_time = JunkTime \/ request.update_time = JunkTime) =>
                candidate.status = "ok"

\* the k-th known header is carried under its lower-case or Title-Case name
\* with a value that names an activity
Recognized(headers, k) ==
    \E casing \in {"lower", "title"} :
        /\ <<KnownHeaders[k], casing>> \in DOMAIN headers
        /\ (casing = "title" => <<KnownHeaders[k], "lower">> \notin DOMAIN headers)
        /\ NormalizeActivity(headers[<<KnownHeaders[k], casing>>]) # ""

\* C15: get_activity returns the first available of: the activity of a known
\* header, the inline hint, "create" for equal and "update" for increasing
\* timestamps, "any"; a source is consulted only when the ones before it
\* give nothing; the call always returns an activity.
C15_ActivityPriority ==
    activity # "none" =>
        LET byHeader == \E k \in 1..Len(KnownHeaders) : Recognized(request.headers, k)
            byHint == candidate.activity_hint # ""
            ct == candidate.create_time
            ut == candidate.update_time
            both == ct.kind # "none" /\ ut.kind # "none"
        IN  /\ activity \in {"create", "update", "delete", "push", "pull_request", "any"}
            /\ byHeader =>
                 \E k \in 1..Len(KnownHeaders) :
                    /\ Recognized(request.headers, k)
                    /\ \A j \in 1..(k - 1) : ~Recognized(request.headers, j)
                    /\ activity = HeaderActivity(request.headers, k)
            /\ (~byHeader /\ byHint) => activity = candidate.activity_hint
            /\ (~byHeader /\ ~byHint /\ both /\ ut = ct) => activity = "create"
            /\ (~byHeader /\ ~byHint /\ both /\ ut.kind = ct.kind /\ ut.wall > ct.wall) =>
                 activity = "update"
            /\ (~byHeader /\ ~byHint /\ ~(both /\ ut.kind = ct.kind /\ ut.wall >= ct.wall)) =>
                 activity = "any"

C15_Witness ==
    /\ activity = "create"
    /\ <<"x-memos-event", "lower">> \in DOMAIN request.headers
    /\ NormalizeActivity(request.headers[<<"x-memos-event", "lower">>]) = ""
    /\ <<"x-action", "title">> \in DOMAIN request.headers
    /\ candidate.activity_hint = "delete"
    /\ candidate.update_time.wall > candidate.create_time.wall

\* the headers dict with every name in lower case
LowerCased(headers) ==
    [key \in {<<k[1], "lower">> : k \in DOMAIN headers} |->
        headers[CHOOSE k \in DOMAIN headers : k[1] = key[1]]]

\* C16 (as stated): a known header is recognized whatever the letter case of
\* its name: the activity is the one resolved with the names in lower case.
C16_HeaderNamesCaseInsensitive ==
    (activity # "none" /\ \A k1, k2 \in DOMAIN request.headers : k1[1] = k2[1] => k1 = k2) =>
        activity = GetActivityResult(candidate, LowerCased(request.headers))

(***************************************************************************)
(* Properties of the result reporter                                       *)
(***************************************************************************)
\* _summarize_results has returned body_chunks
Summarized == ridx > 0

RECURSIVE Join(_)
\* the blocks of one chunk, separated by line breaks
Join(blocks) ==
    IF Len(blocks) = 0 THEN <<>>
    ELSE IF Len(blocks) = 1 THEN blocks[1]
    ELSE blocks[1] \o <<"\n">> \o Join(Tail(blocks))

\* C19: the chunks are the input blocks cut into consecutive groups: every
\* chunk is a run of whole blocks joined by line breaks, and the runs taken
\* in order are all the blocks, each once, in input order.
C19_ChunkIntegrity ==
    Summarized =>
        /\ body_chunks # <<>>
        /\ \E last \in [1..Len(body_chunks) -> 1..Len(rendered)] :
            /\ last[Len(body_chunks)] = Len(rendered)
            /\ \A i \in 1..Len(body_chunks) :
                LET first == IF i = 1 THEN 1 ELSE last[i - 1] + 1
                IN  /\ first <= last[i]
                    /\ body_chunks[i] = Join(SubSeq(rendered, first, last[i]))

C19_Witness ==
    /\ Summarized
    /\ Len(rendered) = 3
    /\ Len(body_chunks) = 2
    /\ body_chunks[1] = rendered[1]
    /\ body_chunks[2] = Join(SubSeq(rendered, 2, 3))
    /\ rendered[1] # rendered[2]

\* C20 (as stated): one post per chunk in chunk order; a failed post is
\* recorded and the next chunk is still attempted; when reporting ends there
\* is one recorded entry per chunk, in chunk order; nothing is raised.
C20_IndependentPerChunkPosting ==
    /\ rpc # "raised"
    /\ \A k \in 1..Len(posts) : posts[k] = k
    /\ (rpc = "returned" /\ Summarized) =>
            /\ Len(posts) = Len(body_chunks)
            /\ Len(created_names) = Len(body_chunks)
            /\ \A i \in 1..Len(created_names) : created_names[i].chunk = i

\* C21 (as stated): when the memo has no name, or the API credentials are
\* not configured, no comment post is attempted and the handler returns
\* without raising.
C21_ReportingSkippedAsAWhole ==
    (parent_name = "" \/ ~config.has_api \/ ~config.has_token) =>
        /\ posts = <<>>
        /\ created_names = <<>>
        /\ rpc # "raised"

(***************************************************************************)
(* Properties of the container manager                                     *)
(***************************************************************************)
\* C22: ensure_container returns a name only if the last health check of the
\* call passed; every other way out is a RuntimeError; when Docker does not
\* answer at the call, the error is raised with no start, rm or run issued.
C22_EnsureContainerPostcondition ==
    /\ ensured = "returned" => last_health = "passed"
    /\ cpc = "done" => ensured \in {"returned", "RuntimeError"}
    /\ cpc # "done" => ensured = "none"
    /\ docker_at_call = "no" => (ensured = "RuntimeError" /\ issued = <<>>)

C22_Witness ==
    /\ ensured = "returned"
    /\ issued = <<"start", "rm", "run">>
    /\ last_health = "passed"


(***************************************************************************)
(* Properties of the compiled content regex                                *)
(***************************************************************************)
\* C23: every type that declares a content pattern and whose matches() was
\* called got the compilation of its own declared pattern, whatever types
\* were evaluated before it
C23_RegexCachedPerType ==
    \A t \in RegexTypes :
        (content_regex_str[t] # "unset" /\ used[t] # <<"unused">>)
            => used[t] = Compile(content_regex_str[t])


(***************************************************************************)
(* Properties of concurrent dispatches                                     *)
(***************************************************************************)
\* dispatch d has executed a command and its sequence has not ended
InSequence(d) == dpc[d] = "loop" /\ dnext[d] > 1

\* C26: the command sequences of two concurrent dispatches never interleave:
\* while one dispatch is inside its sequence the last command executed is
\* its own, and the commands of each dispatch are adjacent in the order of
\* execution
C26_NoInterleaving ==
    /\ \A d \in Dispatches :
            InSequence(d) => shell_log[Len(shell_log)] = d
    /\ \A i, j, k \in 1..Len(shell_log) :
            (i < j /\ j < k /\ shell_log[i] = shell_log[k])
                => shell_log[j] = shell_log[i]

\* both dispatches ran more than one command, one after the other
C26_Witness ==
    /\ \A d \in Dispatches : dpc[d] = "done" /\ dnext[d] > 2
    /\ Len(shell_log) >= 4


(***************************************************************************)
(* Properties of the urgent handler                                        *)
(***************************************************************************)
\* C27: once every handle_urgent_memos invocation has completed, the default
\* handler's filename_pattern is the pattern it had before any of them
\* started
C27_UrgentPatternRestored ==
    (\A u \in UrgentInvocations : upc[u] = "done")
        => filename_pattern = initial_pattern


(***************************************************************************)
(* Properties of the search indexer                                        *)
(***************************************************************************)
\* C28: after every index_memo call has completed, the index file holds an
\* entry for each memo id that was indexed
C28_NoLostIndexEntries ==
    (\A m \in IndexCalls : ipc[m] = "done")
        => \A m \in IndexCalls : index_data[m] # {} => m \in index_file


(***************************************************************************)
(* Properties of the memo storage                                          *)
(***************************************************************************)
\* C29: create without an explicit id stores the memo under a key that was
\* not present before the call, and every stored memo's name is "memos/"
\* followed by its key
C29_AutoIdNeverOverwrites ==
    /\ last_create.auto => ~last_create.existed
    /\ \A k \in DOMAIN memos : memos[k].name = MemoName(k)


(***************************************************************************)
(* Properties of the SSE runner                                            *)
(***************************************************************************)
\* event b has been run by every trigger whose match() is true, and last_id
\* has taken its id
Dispatched(b) ==
    /\ \A t \in Triggers : trig_match[t] => <<b, t>> \in dispatched
    /\ b \in acked

\* C30: every event block received on the stream is eventually dispatched to
\* every trigger whose match returns true, and last_id advances to its id
C30_SseEventsDispatched ==
    \A b \in 1..MaxEvents : (b \in received) ~> Dispatched(b)

====
